---------------------------- MODULE Spec2Model ----------------------------
(***************************************************************************)
(* A model of the cs-modbus master core: the RTU, IP and Tunnel            *)
(* transports (lib/transports), the request/response codec they call, and  *)
(* the Transaction and Master objects that drive them.                     *)
(*                                                                         *)
(* The transports and the codec are translated from their JavaScript       *)
(* source.  Transaction.js and Master.js are not part of the source tree   *)
(* under study; their operations are modelled from sections 3, 4.2, 4.6    *)
(* and 5 of the specification and are marked as such where defined.        *)
(*                                                                         *)
(* JavaScript runs every handler to completion on one thread, so each      *)
(* action below is one whole handler: a timer callback, a `data` event or  *)
(* an application call, with every call it makes synchronously.            *)
(***************************************************************************)
EXTENDS Integers, Sequences, FiniteSets, TLC

VARIABLES
  kind,                  \* which transport the master was created with
  retryOnException,      \* Master option
  maxConcurrentRequests, \* Master option
  enableEcho,            \* RtuTransport.Options.enableEcho
  request,               \* the type of the requests the application submits
  txn,                   \* Transaction objects: state, retries, timer, adu
  ev,                    \* per transaction: what has been observed of it
  requestQueue,          \* Master: transactions waiting for the gate
  executingRequests,     \* Master: transactions handed to the transport
  transaction,           \* Rtu/TunnelTransport.transaction
  nextTransaction,       \* TunnelTransport.nextTransaction
  reader,                \* the transport's BufferQueueReader, as bytes
  eofTimer,              \* TRUE while a setTimeout(handleFrameData) is pending
  sequence,              \* TunnelTransport.sequence
  transactions,          \* IpTransport.transactions: txid -> transaction
  nextTransactionId,     \* IpTransport.nextTransactionId
  header,                \* IpTransport.header
  PREV_MSG_COUNT,        \* module-level echo length of RtuTransport
  destroyed,             \* the transport's destroy() has run
  obs,                   \* observations of the connection and of callers
  call,                  \* a call of a codec function and its arguments
  ret                    \* what the call returned or threw

vars ==
  << kind, retryOnException, maxConcurrentRequests, enableEcho, request, txn,
     ev,
     requestQueue, executingRequests, transaction, nextTransaction, reader,
     eofTimer, sequence, transactions, nextTransactionId, header,
     PREV_MSG_COUNT, destroyed, obs, call, ret >>

-----------------------------------------------------------------------------
(* Bounds of the model. *)

\* number of transactions the application creates
NumTx == 2

\* largest maxRetries the application asks for
MaxRetries == 1

\* largest maxConcurrentRequests the master is configured with
MaxGate == 2

\* how many bytes may pile up from more than one chunk before the
\* end-of-frame timer fires
MaxReader == 6

\* the sequence number at which the bus master of a Tunnel bus goes quiet
MaxPolls == 2

\* how many times a caller other than the master calls sendRequest
MaxDirect == 1

\* the transactions the application submits through the master
T == 1 .. NumTx

\* a transaction some other caller hands to transport.sendRequest directly
probe == NumTx + 1

NULL == 0

-----------------------------------------------------------------------------
(* Program constants. *)

MIN_FRAME_LENGTH == 5
SLAVE_COMMAND == 71
TUNNEL_MIN_FRAME_LENGTH == 4
defaultSlaveId == 127
theFunctionCode == 67
readMemoryCode == 69
\* the unit every request of the model is addressed to
defaultUnit == 1
NO_HEADER == -1
ID_WRAP == 65535

CRC_TABLE ==
  <<
    0, 49345, 49537, 320, 49921, 960, 640, 49729,
    50689, 1728, 1920, 51009, 1280, 50625, 50305, 1088,
    52225, 3264, 3456, 52545, 3840, 53185, 52865, 3648,
    2560, 51905, 52097, 2880, 51457, 2496, 2176, 51265,
    55297, 6336, 6528, 55617, 6912, 56257, 55937, 6720,
    7680, 57025, 57217, 8000, 56577, 7616, 7296, 56385,
    5120, 54465, 54657, 5440, 55041, 6080, 5760, 54849,
    53761, 4800, 4992, 54081, 4352, 53697, 53377, 4160,
    61441, 12480, 12672, 61761, 13056, 62401, 62081, 12864,
    13824, 63169, 63361, 14144, 62721, 13760, 13440, 62529,
    15360, 64705, 64897, 15680, 65281, 16320, 16000, 65089,
    64001, 15040, 15232, 64321, 14592, 63937, 63617, 14400,
    10240, 59585, 59777, 10560, 60161, 11200, 10880, 59969,
    60929, 11968, 12160, 61249, 11520, 60865, 60545, 11328,
    58369, 9408, 9600, 58689, 9984, 59329, 59009, 9792,
    8704, 58049, 58241, 9024, 57601, 8640, 8320, 57409,
    40961, 24768, 24960, 41281, 25344, 41921, 41601, 25152,
    26112, 42689, 42881, 26432, 42241, 26048, 25728, 42049,
    27648, 44225, 44417, 27968, 44801, 28608, 28288, 44609,
    43521, 27328, 27520, 43841, 26880, 43457, 43137, 26688,
    30720, 47297, 47489, 31040, 47873, 31680, 31360, 47681,
    48641, 32448, 32640, 48961, 32000, 48577, 48257, 31808,
    46081, 29888, 30080, 46401, 30464, 47041, 46721, 30272,
    29184, 45761, 45953, 29504, 45313, 29120, 28800, 45121,
    20480, 37057, 37249, 20800, 37633, 21440, 21120, 37441,
    38401, 22208, 22400, 38721, 21760, 38337, 38017, 21568,
    39937, 23744, 23936, 40257, 24320, 40897, 40577, 24128,
    23040, 39617, 39809, 23360, 39169, 22976, 22656, 38977,
    34817, 18624, 18816, 35137, 19200, 35777, 35457, 19008,
    19968, 36545, 36737, 20288, 36097, 19904, 19584, 35905,
    17408, 33985, 34177, 17728, 34561, 18368, 18048, 34369,
    33281, 17088, 17280, 33601, 16640, 33217, 32897, 16448
  >>

-----------------------------------------------------------------------------
(* Bytes and buffers. *)

RECURSIVE Xor(_, _)
\* JavaScript's ^ on non-negative integers
Xor(a, b) ==
  IF a = 0 THEN b
  ELSE IF b = 0 THEN a
  ELSE (((a % 2) + (b % 2)) % 2) + (2 * Xor(a \div 2, b \div 2))

\* buffer.slice(from): the bytes from 0-based index `from` on
Slice(buf, from) ==
  IF from >= Len(buf) THEN << >> ELSE SubSeq(buf, from + 1, Len(buf))

\* the first n bytes of a buffer
Take(buf, n) == SubSeq(buf, 1, n)

UInt16BE(v) == << v \div 256, v % 256 >>
UInt16LE(v) == << v % 256, v \div 256 >>

\* one round of the table-driven CRC: j = (crc ^ b) & 0xFF; crc >>= 8;
\* crc ^= CRC_TABLE[j]
crcByte(crc, b) == Xor(crc \div 256, CRC_TABLE[(Xor(crc, b) % 256) + 1])

RECURSIVE crcBuffer(_, _)
crcBuffer(crc, buffer) ==
  IF buffer = << >> THEN crc
  ELSE crcBuffer(crcByte(crc, Head(buffer)), Tail(buffer))

\* a crc16 seeded with 0 instead of 0xFFFF
crc16SeedZero(firstByte, buffer) ==
  crcBuffer(IF firstByte # -1 THEN crcByte(0, firstByte) ELSE 0, buffer)

\* RtuTransport.prototype.crc16 / TunnelTransport.prototype.crc16
crc16(firstByte, buffer) ==
  crcBuffer(IF firstByte # -1 THEN crcByte(65535, firstByte) ELSE 65535, buffer)

\* the bytes frame() builds: unit, pdu, CRC low byte first
rtuFrameBytes(unit, pdu) == << unit >> \o pdu \o UInt16LE(crc16(unit, pdu))

\* IpTransport.prototype.frame
ipFrame(id, unit, pdu) ==
  UInt16BE(id) \o UInt16BE(0) \o UInt16BE(Len(pdu) + 1) \o << unit >> \o pdu

-----------------------------------------------------------------------------
(* The codec the transports call (functions/Request.js, the ReadObject     *)
(* pair and the ReadMemory pair).  The requests of a run are all of one    *)
(* type: ReadObject, whose ADU on RTU is as long as the shortest frame, or *)
(* ReadMemory, whose ADU is longer.                                        *)

Requests == {"ReadObject", "ReadMemory"}

\* the object id every request of the model reads
objectId == 1

\* ReadObjectRequest.prototype.toBuffer
ReadObjectRequest_toBuffer(id) == << theFunctionCode, id >>

\* a byte of a Buffer that was allocated and never written: whatever the
\* memory held
uninitialised == -1

\* values = new Buffer(byteCount); buffer.copy(values, 0, sourceStart,
\* sourceStart + byteCount): the bytes the source holds from sourceStart
\* on, the rest of values left as allocated
BufferCopy(buffer, sourceStart, byteCount) ==
  [i \in 1 .. byteCount |->
     IF sourceStart + i <= Len(buffer) THEN buffer[sourceStart + i]
     ELSE uninitialised]

\* ExceptionResponse.fromBuffer (functions/ExceptionResponse.js, not in the
\* source tree): function code with the high bit set, then the exception code
ExceptionResponse_fromBuffer(buffer) ==
  IF Len(buffer) < 2
    THEN [kind |-> "throw", error |-> "IncompletePdu", values |-> << >>]
    ELSE [kind |-> "exception", error |-> "none", values |-> << buffer[2] >>]

\* ReadObjectResponse.fromBuffer: length check, function code check, then
\* a Buffer of byteCount bytes filled by a copy from offset 2
ReadObjectResponse_fromBuffer(buffer) ==
  IF Len(buffer) < 2
    THEN [kind |-> "throw", error |-> "IncompletePdu", values |-> << >>]
    ELSE IF buffer[1] # theFunctionCode
      THEN [kind |-> "throw", error |-> "InvalidFunctionCode", values |-> << >>]
      ELSE [kind |-> "response", error |-> "none",
            values |-> BufferCopy(buffer, 2, buffer[2])]

\* the address and the count every ReadMemory request of the model asks for
memoryAddress == 1
memoryCount == 1

\* ReadMemoryRequest.prototype.toBuffer
ReadMemoryRequest_toBuffer(address, count) ==
  << readMemoryCode >> \o UInt16BE(address) \o << count >>

\* ReadMemoryResponse.fromBuffer: length check, function code check, then
\* every byte behind the function code
ReadMemoryResponse_fromBuffer(buffer) ==
  IF Len(buffer) < 2
    THEN [kind |-> "throw", error |-> "IncompletePdu", values |-> << >>]
    ELSE IF buffer[1] # readMemoryCode
      THEN [kind |-> "throw", error |-> "InvalidFunctionCode", values |-> << >>]
      ELSE [kind |-> "response", error |-> "none", values |-> Slice(buffer, 1)]

\* request.toBuffer() of a request of type r
RequestPdu(r) ==
  IF r = "ReadMemory"
    THEN ReadMemoryRequest_toBuffer(memoryAddress, memoryCount)
    ELSE ReadObjectRequest_toBuffer(objectId)

\* the paired response type's fromBuffer, as the request's createResponse
\* passes it on
ResponseType_fromBuffer(buffer) ==
  IF request = "ReadMemory"
    THEN ReadMemoryResponse_fromBuffer(buffer)
    ELSE ReadObjectResponse_fromBuffer(buffer)

\* a createExceptionOrResponse that takes a first byte of 0x80 for an
\* exception too
createResponseFrom0x80(responseBuffer) ==
  IF Len(responseBuffer) > 0 /\ responseBuffer[1] >= 128
    THEN ExceptionResponse_fromBuffer(responseBuffer)
    ELSE ResponseType_fromBuffer(responseBuffer)

\* Request.prototype.createExceptionOrResponse, as the request's
\* createResponse calls it.  In JavaScript an empty buffer's [0] is
\* undefined, and undefined > 0x80 is false.
createResponse(responseBuffer) ==
  IF Len(responseBuffer) > 0 /\ responseBuffer[1] > 128
    THEN ExceptionResponse_fromBuffer(responseBuffer)
    ELSE ResponseType_fromBuffer(responseBuffer)

-----------------------------------------------------------------------------
(* The function codec: the request types.  util.js is not in the source    *)
(* tree: its checks are modelled from section 4.1 (a value out of range    *)
(* fails with InvalidOptions, a short buffer with IncompletePdu, a wrong   *)
(* function code with InvalidFunctionCode).                                *)

\* a constructor or a decoder that throws
Throws(error) == [kind |-> "throw", error |-> error, values |-> << >>]

\* a request object and its observable fields; a field a type does not
\* have is 0 or empty
Request(type, id, address, count, values) ==
  [kind |-> "request", error |-> "none", type |-> type, id |-> id,
   address |-> address, count |-> count, values |-> values]

\* util.prepareNumericOption and util.prepareAddress: the value is accepted
InRange(value, min, max) == value >= min /\ value <= max

\* util.assertBufferLength, then util.assertFunctionCode, then the decoder
Decode(buffer, minLength, code, decoded) ==
  IF Len(buffer) < minLength THEN Throws("IncompletePdu")
  ELSE IF buffer[1] # code THEN Throws("InvalidFunctionCode")
  ELSE decoded

\* the largest count of bytes a request asks for or carries
maxLimit == 250

\* ReadFifo8Request (0x41)
ReadFifo8Request(id, max) ==
  IF InRange(id, 0, 255) /\ InRange(max, 0, maxLimit)
    THEN Request("ReadFifo8Request", id, 0, max, << >>)
    ELSE Throws("InvalidOptions")

\* options.max || maxLimit: a max of 0 is replaced like a missing one
ReadFifo8Request_fromOptions(options) ==
  ReadFifo8Request(options.id, IF options.max = 0 THEN maxLimit ELSE options.max)

ReadFifo8Request_toBuffer(r) == << 65, r.id, r.count >>

ReadFifo8Request_fromBuffer(buffer) ==
  Decode(buffer, 3, 65, ReadFifo8Request(buffer[2], buffer[3]))

\* WriteFifo8Request (0x42)
WriteFifo8Request(id, values) ==
  IF InRange(Len(values), 1, maxLimit) /\ InRange(id, 0, 255)
    THEN Request("WriteFifo8Request", id, 0, 0, values)
    ELSE Throws("InvalidOptions")

WriteFifo8Request_fromOptions(options) ==
  WriteFifo8Request(options.id, options.values)

WriteFifo8Request_toBuffer(r) == << 66, r.id, Len(r.values) >> \o r.values

WriteFifo8Request_fromBuffer(buffer) ==
  Decode(buffer, 4, 66,
         WriteFifo8Request(buffer[2], BufferCopy(buffer, 3, buffer[3])))

\* ReadObjectRequest (0x43)
ReadObjectRequest(id) ==
  IF InRange(id, 0, 255)
    THEN Request("ReadObjectRequest", id, 0, 0, << >>)
    ELSE Throws("InvalidOptions")

ReadObjectRequest_fromOptions(options) == ReadObjectRequest(options.id)

ReadObjectRequest_fromBuffer(buffer) ==
  Decode(buffer, 2, theFunctionCode, ReadObjectRequest(buffer[2]))

\* WriteObjectRequest (0x44)
WriteObjectRequest(id, values) ==
  IF InRange(Len(values), 1, maxLimit) /\ InRange(id, 0, 255)
    THEN Request("WriteObjectRequest", id, 0, 0, values)
    ELSE Throws("InvalidOptions")

WriteObjectRequest_fromOptions(options) ==
  WriteObjectRequest(options.id, options.values)

WriteObjectRequest_toBuffer(r) == << 68, r.id, Len(r.values) >> \o r.values

WriteObjectRequest_fromBuffer(buffer) ==
  Decode(buffer, 4, 68,
         WriteObjectRequest(buffer[2], BufferCopy(buffer, 3, buffer[3])))

\* ReadMemoryRequest (0x45)
ReadMemoryRequest(address, count) ==
  IF InRange(address, 0, 65535) /\ InRange(count, 1, maxLimit)
    THEN Request("ReadMemoryRequest", 0, address, count, << >>)
    ELSE Throws("InvalidOptions")

ReadMemoryRequest_fromOptions(options) ==
  ReadMemoryRequest(options.address, options.count)

ReadMemoryRequest_fromBuffer(buffer) ==
  Decode(buffer, 4, readMemoryCode,
         ReadMemoryRequest((256 * buffer[2]) + buffer[3], buffer[4]))

\* WriteMemoryRequest (0x46)
WriteMemoryRequest(address, values) ==
  IF InRange(Len(values), 1, maxLimit) /\ InRange(address, 0, 65535)
    THEN Request("WriteMemoryRequest", 0, address, 0, values)
    ELSE Throws("InvalidOptions")

WriteMemoryRequest_fromOptions(options) ==
  WriteMemoryRequest(options.address, options.values)

WriteMemoryRequest_toBuffer(r) == << 70 >> \o UInt16BE(r.address) \o r.values

WriteMemoryRequest_fromBuffer(buffer) ==
  Decode(buffer, 4, 70,
         WriteMemoryRequest((256 * buffer[2]) + buffer[3],
                            BufferCopy(buffer, 3, Len(buffer) - 3)))

\* CommandRequest (0x47)
CommandRequest(id, values) ==
  IF InRange(id, 0, 255)
    THEN Request("CommandRequest", id, 0, 0, values)
    ELSE Throws("InvalidOptions")

\* the values are the option `data`
CommandRequest_fromOptions(options) == CommandRequest(options.id, options.data)

CommandRequest_toBuffer(r) == << SLAVE_COMMAND, r.id >> \o r.values

\* the values are copied from offset 3 into a Buffer of length - 2 bytes
CommandRequest_fromBuffer(buffer) ==
  Decode(buffer, 2, SLAVE_COMMAND,
         CommandRequest(buffer[2], BufferCopy(buffer, 3, Len(buffer) - 2)))

\* ReportSlaveIdRequest (0x11)
ReportSlaveIdRequest == Request("ReportSlaveIdRequest", 0, 0, 0, << >>)

ReportSlaveIdRequest_fromOptions(options) == ReportSlaveIdRequest

ReportSlaveIdRequest_toBuffer(r) == << 17 >>

\* the buffer must be exactly one byte long
ReportSlaveIdRequest_fromBuffer(buffer) ==
  IF Len(buffer) # 1 THEN Throws("IncompletePdu")
  ELSE IF buffer[1] # 17 THEN Throws("InvalidFunctionCode")
  ELSE ReportSlaveIdRequest

\* the request types of the vendor extension and ReportSlaveId
RequestTypes ==
  { "ReadFifo8Request", "WriteFifo8Request", "ReadObjectRequest",
    "WriteObjectRequest", "ReadMemoryRequest", "WriteMemoryRequest",
    "CommandRequest", "ReportSlaveIdRequest" }

\* <type>.fromOptions(options)
FromOptions(type, options) ==
  CASE type = "ReadFifo8Request" -> ReadFifo8Request_fromOptions(options)
    [] type = "WriteFifo8Request" -> WriteFifo8Request_fromOptions(options)
    [] type = "ReadObjectRequest" -> ReadObjectRequest_fromOptions(options)
    [] type = "WriteObjectRequest" -> WriteObjectRequest_fromOptions(options)
    [] type = "ReadMemoryRequest" -> ReadMemoryRequest_fromOptions(options)
    [] type = "WriteMemoryRequest" -> WriteMemoryRequest_fromOptions(options)
    [] type = "CommandRequest" -> CommandRequest_fromOptions(options)
    [] type = "ReportSlaveIdRequest" -> ReportSlaveIdRequest_fromOptions(options)

\* request.toBuffer()
ToBuffer(r) ==
  CASE r.type = "ReadFifo8Request" -> ReadFifo8Request_toBuffer(r)
    [] r.type = "WriteFifo8Request" -> WriteFifo8Request_toBuffer(r)
    [] r.type = "ReadObjectRequest" -> ReadObjectRequest_toBuffer(r.id)
    [] r.type = "WriteObjectRequest" -> WriteObjectRequest_toBuffer(r)
    [] r.type = "ReadMemoryRequest" -> ReadMemoryRequest_toBuffer(r.address, r.count)
    [] r.type = "WriteMemoryRequest" -> WriteMemoryRequest_toBuffer(r)
    [] r.type = "CommandRequest" -> CommandRequest_toBuffer(r)
    [] r.type = "ReportSlaveIdRequest" -> ReportSlaveIdRequest_toBuffer(r)

\* <type>.fromBuffer(buffer)
FromBuffer(type, buffer) ==
  CASE type = "ReadFifo8Request" -> ReadFifo8Request_fromBuffer(buffer)
    [] type = "WriteFifo8Request" -> WriteFifo8Request_fromBuffer(buffer)
    [] type = "ReadObjectRequest" -> ReadObjectRequest_fromBuffer(buffer)
    [] type = "WriteObjectRequest" -> WriteObjectRequest_fromBuffer(buffer)
    [] type = "ReadMemoryRequest" -> ReadMemoryRequest_fromBuffer(buffer)
    [] type = "WriteMemoryRequest" -> WriteMemoryRequest_fromBuffer(buffer)
    [] type = "CommandRequest" -> CommandRequest_fromBuffer(buffer)
    [] type = "ReportSlaveIdRequest" -> ReportSlaveIdRequest_fromBuffer(buffer)

-----------------------------------------------------------------------------
(* The function codec: the response types. *)

\* util.format("%d", n): the decimal digits of n
RECURSIVE Digits(_)
Digits(n) == IF n < 10 THEN << n >> ELSE Digits(n \div 10) \o << n % 10 >>

\* parseInt(token, 10) of a token of decimal digits
RECURSIVE ParseInt(_)
ParseInt(token) ==
  IF Len(token) = 1 THEN token[1]
  ELSE (10 * ParseInt(Take(token, Len(token) - 1))) + token[Len(token)]

\* ReadFifo8Response (0x41): status bits `more` and `overflow`, values
ReadFifo8Response_fromBuffer(buffer) ==
  Decode(buffer, 3, 65,
         [kind |-> "response", error |-> "none", type |-> "ReadFifo8Response",
          more |-> buffer[2] % 2 = 1,
          overflow |-> (buffer[2] \div 2) % 2 = 1,
          values |-> BufferCopy(buffer, 3, buffer[3])])

ReadFifo8Response_toBuffer(r) ==
  << 65, (IF r.more THEN 1 ELSE 0) + (IF r.overflow THEN 2 ELSE 0),
     Len(r.values) >> \o r.values

\* WriteFifo8Response (0x42): quantity, 0 to 250
WriteFifo8Response_fromBuffer(buffer) ==
  Decode(buffer, 2, 66,
         IF InRange(buffer[2], 0, maxLimit)
           THEN [kind |-> "response", error |-> "none",
                 type |-> "WriteFifo8Response", quantity |-> buffer[2]]
           ELSE Throws("InvalidOptions"))

WriteFifo8Response_toBuffer(r) == << 66, r.quantity >>

\* ReadObjectResponse (0x43)
ReadObjectResponse_toBuffer(r) ==
  << theFunctionCode, Len(r.values) >> \o r.values

\* ReadMemoryResponse (0x45)
ReadMemoryResponse_toBuffer(r) == << readMemoryCode >> \o r.values

\* WriteObjectResponse (0x44): status, 0 to 250
WriteObjectResponse_fromBuffer(buffer) ==
  Decode(buffer, 2, 68,
         IF InRange(buffer[2], 0, maxLimit)
           THEN [kind |-> "response", error |-> "none",
                 type |-> "WriteObjectResponse", status |-> buffer[2]]
           ELSE Throws("InvalidOptions"))

WriteObjectResponse_toBuffer(r) == << 68, r.status >>

\* WriteMemoryResponse (0x46): status, 0 to 250
WriteMemoryResponse_fromBuffer(buffer) ==
  Decode(buffer, 2, 70,
         IF InRange(buffer[2], 0, maxLimit)
           THEN [kind |-> "response", error |-> "none",
                 type |-> "WriteMemoryResponse", status |-> buffer[2]]
           ELSE Throws("InvalidOptions"))

WriteMemoryResponse_toBuffer(r) == << 70, r.status >>

\* CommandResponse (0x47): id, then every byte behind it
CommandResponse_fromBuffer(buffer) ==
  Decode(buffer, 2, SLAVE_COMMAND,
         [kind |-> "response", error |-> "none", type |-> "CommandResponse",
          id |-> buffer[2], values |-> BufferCopy(buffer, 2, Len(buffer) - 2)])

CommandResponse_toBuffer(r) == << SLAVE_COMMAND, r.id >> \o r.values

\* WriteSingleCoilResponse (0x05): address, state as 0xFF00 or 0x0000
WriteSingleCoilResponse_fromBuffer(buffer) ==
  Decode(buffer, 5, 5,
         [kind |-> "response", error |-> "none",
          type |-> "WriteSingleCoilResponse",
          address |-> (256 * buffer[2]) + buffer[3],
          state |-> (256 * buffer[4]) + buffer[5] = 65280])

WriteSingleCoilResponse_toBuffer(r) ==
  << 5 >> \o UInt16BE(r.address) \o UInt16BE(IF r.state THEN 65280 ELSE 0)

\* new ReportSlaveIdResponse(product, run, version, values): the version
\* is a string "a.b.c", split and parsed
ReportSlaveIdResponse(product, run, version, values) ==
  IF ~InRange(product, 0, 255) \/ ~InRange(run, 0, 255) \/ Len(version) # 3
    THEN Throws("InvalidOptions")
    ELSE [kind |-> "response", error |-> "none",
          type |-> "ReportSlaveIdResponse", product |-> product, run |-> run,
          version |-> [i \in 1 .. 3 |-> ParseInt(version[i])],
          values |-> values]

\* ReportSlaveIdResponse.fromBuffer (0x11): buffer[1], the byte count, is
\* not read; product, run and version are buffer[2] to buffer[6], the
\* values what follows
ReportSlaveIdResponse_fromBuffer(buffer) ==
  Decode(buffer, 7, 17,
         ReportSlaveIdResponse(buffer[3], buffer[4],
                               << Digits(buffer[5]), Digits(buffer[6]),
                                  Digits(buffer[7]) >>,
                               BufferCopy(buffer, 7, Len(buffer) - 7)))

\* ReportSlaveIdResponse.prototype.toBuffer: no byte count is written
ReportSlaveIdResponse_toBuffer(r) ==
  << 17, r.product, r.run, r.version[1], r.version[2], r.version[3] >>
    \o r.values

\* new ReadDiagnosticsResponse(value): the one argument is kept as the
\* address, the value is 0
ReadDiagnosticsResponse(value) ==
  IF InRange(value, 0, 65535)
    THEN [kind |-> "response", error |-> "none",
          type |-> "ReadDiagnosticsResponse", address |-> value, value |-> 0]
    ELSE Throws("InvalidOptions")

\* ReadDiagnosticsResponse.fromBuffer (0x08): the constructor is called
\* with (address, value) and takes the first
ReadDiagnosticsResponse_fromBuffer(buffer) ==
  Decode(buffer, 5, 8, ReadDiagnosticsResponse((256 * buffer[2]) + buffer[3]))

ReadDiagnosticsResponse_toBuffer(r) ==
  << 8 >> \o UInt16BE(r.address) \o UInt16BE(r.value)

\* the response types of the source tree
ResponseTypes ==
  { "ReadFifo8Response", "WriteFifo8Response", "ReadObjectResponse",
    "WriteObjectResponse", "ReadMemoryResponse", "WriteMemoryResponse",
    "CommandResponse", "WriteSingleCoilResponse", "ReportSlaveIdResponse",
    "ReadDiagnosticsResponse" }

\* <type>.fromBuffer(buffer)
ResponseFromBuffer(type, buffer) ==
  CASE type = "ReadFifo8Response" -> ReadFifo8Response_fromBuffer(buffer)
    [] type = "WriteFifo8Response" -> WriteFifo8Response_fromBuffer(buffer)
    [] type = "ReadObjectResponse" -> ReadObjectResponse_fromBuffer(buffer)
    [] type = "WriteObjectResponse" -> WriteObjectResponse_fromBuffer(buffer)
    [] type = "ReadMemoryResponse" -> ReadMemoryResponse_fromBuffer(buffer)
    [] type = "WriteMemoryResponse" -> WriteMemoryResponse_fromBuffer(buffer)
    [] type = "CommandResponse" -> CommandResponse_fromBuffer(buffer)
    [] type = "WriteSingleCoilResponse" ->
         WriteSingleCoilResponse_fromBuffer(buffer)
    [] type = "ReportSlaveIdResponse" -> ReportSlaveIdResponse_fromBuffer(buffer)
    [] type = "ReadDiagnosticsResponse" ->
         ReadDiagnosticsResponse_fromBuffer(buffer)

\* response.toBuffer() of a response of the given type
ResponseToBuffer(type, r) ==
  CASE type = "ReadFifo8Response" -> ReadFifo8Response_toBuffer(r)
    [] type = "WriteFifo8Response" -> WriteFifo8Response_toBuffer(r)
    [] type = "ReadObjectResponse" -> ReadObjectResponse_toBuffer(r)
    [] type = "WriteObjectResponse" -> WriteObjectResponse_toBuffer(r)
    [] type = "ReadMemoryResponse" -> ReadMemoryResponse_toBuffer(r)
    [] type = "WriteMemoryResponse" -> WriteMemoryResponse_toBuffer(r)
    [] type = "CommandResponse" -> CommandResponse_toBuffer(r)
    [] type = "WriteSingleCoilResponse" -> WriteSingleCoilResponse_toBuffer(r)
    [] type = "ReportSlaveIdResponse" -> ReportSlaveIdResponse_toBuffer(r)
    [] type = "ReadDiagnosticsResponse" -> ReadDiagnosticsResponse_toBuffer(r)

-----------------------------------------------------------------------------
(* The code-indexed registry of functions/index.js and Request.fromOptions. *)

\* exports[code]: the name the registry binds to the code; exports[0x42] is
\* bound to exports.WriteFifoRequest, a name index.js never exports
registry ==
  (1 :> "ReadCoilsRequest") @@ (2 :> "ReadDiscreteInputsRequest")
  @@ (3 :> "ReadHoldingRegistersRequest") @@ (4 :> "ReadInputRegistersRequest")
  @@ (5 :> "WriteSingleCoilRequest") @@ (6 :> "WriteSingleRegisterRequest")
  @@ (8 :> "ReadDiagnosticsRequest") @@ (15 :> "WriteMultipleCoilsRequest")
  @@ (16 :> "WriteMultipleRegistersRequest") @@ (17 :> "ReportSlaveIdRequest")
  @@ (20 :> "ReadFileRecordRequest") @@ (21 :> "WriteFileRecordRequest")
  @@ (65 :> "ReadFifo8Request") @@ (66 :> "WriteFifoRequest")
  @@ (67 :> "ReadObjectRequest") @@ (68 :> "WriteObjectRequest")
  @@ (69 :> "ReadMemoryRequest") @@ (70 :> "WriteMemoryRequest")
  @@ (71 :> "CommandRequest")

\* the names index.js exports a request type under
exported ==
  RequestTypes \cup
    { "ReadCoilsRequest", "ReadDiscreteInputsRequest",
      "ReadHoldingRegistersRequest", "ReadInputRegistersRequest",
      "WriteSingleCoilRequest", "WriteSingleRegisterRequest",
      "ReadDiagnosticsRequest", "WriteMultipleCoilsRequest",
      "WriteMultipleRegistersRequest", "ReadFileRecordRequest",
      "WriteFileRecordRequest" }

\* Request.fromOptions: an unknown code throws 'Unknown request'; a code
\* bound to undefined throws a TypeError at `.fromOptions`; the types of
\* the standard codes are not in the source tree and build a request of
\* their name (4.1)
Request_fromOptions(options) ==
  IF options.code \notin DOMAIN registry
    THEN Throws("Unknown request")
    ELSE LET type == registry[options.code]
         IN  IF type \notin exported THEN Throws("TypeError")
             ELSE IF type \in RequestTypes THEN FromOptions(type, options)
             ELSE Request(type, 0, options.address, options.count, << >>)

-----------------------------------------------------------------------------
(* The whole mutable state as one record, so that a handler and the calls  *)
(* it makes compose as functions from state to state.                      *)

S ==
  [ txn |-> txn, ev |-> ev, requestQueue |-> requestQueue,
    executingRequests |-> executingRequests, transaction |-> transaction,
    nextTransaction |-> nextTransaction, reader |-> reader,
    eofTimer |-> eofTimer, sequence |-> sequence,
    transactions |-> transactions, nextTransactionId |-> nextTransactionId,
    header |-> header, PREV_MSG_COUNT |-> PREV_MSG_COUNT,
    destroyed |-> destroyed, obs |-> obs ]

Becomes(s) ==
  /\ txn' = s.txn
  /\ ev' = s.ev
  /\ requestQueue' = s.requestQueue
  /\ executingRequests' = s.executingRequests
  /\ transaction' = s.transaction
  /\ nextTransaction' = s.nextTransaction
  /\ reader' = s.reader
  /\ eofTimer' = s.eofTimer
  /\ sequence' = s.sequence
  /\ transactions' = s.transactions
  /\ nextTransactionId' = s.nextTransactionId
  /\ header' = s.header
  /\ PREV_MSG_COUNT' = s.PREV_MSG_COUNT
  /\ destroyed' = s.destroyed
  /\ obs' = s.obs
  /\ UNCHANGED << kind, retryOnException, maxConcurrentRequests, enableEcho,
                  request, call, ret >>

\* IpTransport.Header after reset()
emptyHeader == [id |-> NO_HEADER, version |-> -1, length |-> -1, unit |-> -1]

\* a delete that removes nothing
Kept(m, k) == m

\* a map without one key (JavaScript's delete)
Without(m, k) == [i \in (DOMAIN m) \ {k} |-> m[i]]

\* a sequence without the element e
RECURSIVE SeqWithout(_, _)
SeqWithout(q, e) ==
  IF q = << >> THEN << >>
  ELSE IF Head(q) = e THEN SeqWithout(Tail(q), e)
  ELSE << Head(q) >> \o SeqWithout(Tail(q), e)

SeqToSet(q) == {q[i] : i \in 1 .. Len(q)}

-----------------------------------------------------------------------------
(* Counters of the model stop at CounterCap. *)

CounterCap == 3

Inc(n) == IF n < CounterCap THEN n + 1 ELSE n

\* a synchronous `throw new Error(...)`: the caller sees obs.threw
Throw(s) == [s EXCEPT !.obs.threw = TRUE]

-----------------------------------------------------------------------------
(* Transaction: the accessors the transports call.  Transaction.js is not  *)
(* in the source tree; modelled from sections 3 and 4.2.                   *)

Live(st) == st \in {"pending", "inflight"}

\* Transaction.getAdu(): the cached ADU, << >> standing for null
TxGetAdu(s, t) == s.txn[t].adu

\* Transaction.setAdu(adu)
TxSetAdu(s, t, adu) ==
  [s EXCEPT !.txn[t].adu = adu, !.ev[t].aduSet = Inc(@)]

\* Transaction.start(onTimeout): arm the single-shot timer.  `handler` is
\* what the transport passed: for IP the txid its closure captured.  No
\* event fires for a cancelled transaction (4.2 cancel), so none is armed.
TxStart(s, t, handler) ==
  IF s.txn[t].state \in {"cancelled", "destroyed"}
    THEN s
    ELSE [s EXCEPT !.txn[t].timer = TRUE,
                   !.txn[t].onTimeout = handler,
                   !.obs.open = @ \cup {t}]

\* transport.emit('request', transaction)
EmitRequest(s, t) == [s EXCEPT !.ev[t].request = Inc(@)]

\* connection.write(adu), with what is observed of it: the bytes, whose
\* request they carry (NULL for none), which transaction was the
\* transport's current one and which other transactions were open
ConnWrite(s, t, bytes) ==
  LET w == [tx |-> t, current |-> s.transaction, others |-> s.obs.open \ {t},
            bytes |-> bytes]
  IN  IF t = NULL
        THEN [s EXCEPT !.obs.lastWrite = w]
        ELSE [s EXCEPT !.obs.lastWrite = w,
                       !.ev[t].written = Inc(@),
                       !.txn[t].state =
                          IF @ = "pending" THEN "inflight" ELSE @]

-----------------------------------------------------------------------------
(* RtuTransport: the outbound side. *)

\* RtuTransport.prototype.frame: builds the ADU and records its length in
\* the module-level PREV_MSG_COUNT
RtuFrame(s, unit, pdu) == [s EXCEPT !.PREV_MSG_COUNT = 1 + Len(pdu) + 2]

\* RtuTransport.prototype.buildAdu
RtuBuildAdu(s, t) ==
  LET pdu == RequestPdu(request)
  IN  TxSetAdu(RtuFrame(s, defaultUnit, pdu), t,
               rtuFrameBytes(defaultUnit, pdu))

\* RtuTransport.prototype.getAdu: the state after the call; the ADU it
\* returns is the transaction's cached one
RtuGetAdu(s, t) == IF TxGetAdu(s, t) = << >> THEN RtuBuildAdu(s, t) ELSE s

\* sendRequest without its check of the current transaction
RtuSendRequestUnguarded(s, t) ==
  LET s1 == [s EXCEPT !.transaction = t]
      s2 == RtuGetAdu(s1, t)
      s3 == EmitRequest(s2, t)
      s4 == ConnWrite(s3, t, TxGetAdu(s2, t))
  IN  TxStart(s4, t, 0)

\* sendRequest without its write to the connection
RtuSendRequestUnwritten(s, t) ==
  IF s.transaction # NULL
    THEN Throw(s)
    ELSE TxStart(EmitRequest(RtuGetAdu([s EXCEPT !.transaction = t], t), t),
                 t, 0)

\* RtuTransport.prototype.sendRequest
RtuSendRequest(s, t) ==
  IF s.transaction # NULL
    THEN Throw(s)
    ELSE LET s1 == [s EXCEPT !.transaction = t]
             s2 == RtuGetAdu(s1, t)
             s3 == EmitRequest(s2, t)
             s4 == ConnWrite(s3, t, TxGetAdu(s2, t))
         IN  TxStart(s4, t, 0)

\* a skipResponseData that empties the reader and keeps the transaction
RtuSkipResponseDataReaderOnly(s) == [s EXCEPT !.reader = << >>]

\* RtuTransport.prototype.skipResponseData
RtuSkipResponseData(s) == [s EXCEPT !.reader = << >>, !.transaction = NULL]

\* RtuTransport.prototype.handleTimeout
RtuHandleTimeout(s) == RtuSkipResponseData([s EXCEPT !.eofTimer = FALSE])

\* a validate that looks at the unit before the CRC
RtuValidateUnitFirst(expectedUnit, actualUnit, responseBuffer, expectedChecksum) ==
  IF actualUnit # expectedUnit
    THEN "InvalidResponseData"
    ELSE IF crc16(actualUnit, responseBuffer) # expectedChecksum
      THEN "InvalidChecksum"
      ELSE "none"

\* RtuTransport.prototype.validate: "none" stands for null
RtuValidate(expectedUnit, actualUnit, responseBuffer, expectedChecksum) ==
  IF crc16(actualUnit, responseBuffer) # expectedChecksum
    THEN "InvalidChecksum"
    ELSE IF actualUnit # expectedUnit THEN "InvalidResponseData" ELSE "none"

-----------------------------------------------------------------------------
(* IpTransport: the outbound side. *)

\* an allocator that counts on through 0xFFFF
IpGetNextTransactionIdNoSkip(s) == [s EXCEPT !.nextTransactionId = @ + 1]

\* IpTransport.prototype.getNextTransactionId
IpGetNextTransactionId(s) ==
  [s EXCEPT !.nextTransactionId = IF @ + 1 = ID_WRAP THEN 0 ELSE @ + 1]

\* IpTransport.prototype.buildAdu
IpBuildAdu(s, id, t) ==
  TxSetAdu(s, t, ipFrame(id, defaultUnit, ReadObjectRequest_toBuffer(objectId)))

\* getAdu that returns a cached ADU as it is
IpGetAduStale(s, id, t) ==
  IF TxGetAdu(s, t) = << >> THEN IpBuildAdu(s, id, t) ELSE s

\* a getAdu that frames the request anew on every transmission
IpGetAduRebuilt(s, id, t) == IpBuildAdu(s, id, t)

\* IpTransport.prototype.getAdu: a cached ADU gets the new id written over
\* its first two bytes, in place
IpGetAdu(s, id, t) ==
  IF TxGetAdu(s, t) = << >>
    THEN IpBuildAdu(s, id, t)
    ELSE [s EXCEPT !.txn[t].adu = UInt16BE(id) \o Slice(@, 2)]

\* sendRequest that writes the ADU twice
IpSendRequestTwice(s, t) ==
  LET s1 == IpGetNextTransactionId(s)
      id == s1.nextTransactionId
      s2 == IpGetAdu(s1, id, t)
      s3 == [s2 EXCEPT !.transactions = (id :> t) @@ @]
      s4 == EmitRequest(s3, t)
      s5 == ConnWrite(ConnWrite(s4, t, TxGetAdu(s2, t)), t, TxGetAdu(s2, t))
  IN  TxStart(s5, t, id)

\* IpTransport.prototype.sendRequest
IpSendRequest(s, t) ==
  LET s1 == IpGetNextTransactionId(s)
      id == s1.nextTransactionId
      s2 == IpGetAdu(s1, id, t)
      s3 == [s2 EXCEPT !.transactions = (id :> t) @@ @]
      s4 == EmitRequest(s3, t)
      s5 == ConnWrite(s4, t, TxGetAdu(s2, t))
  IN  TxStart(s5, t, id)

\* the closure IpTransport.prototype.createTimeoutHandler(id) returns
IpTimeoutHandler(s, id) ==
  IF id \in DOMAIN s.transactions
    THEN [s EXCEPT !.transactions = Without(@, id)]
    ELSE s

-----------------------------------------------------------------------------
(* TunnelTransport: the outbound side. *)

\* TunnelTransport.prototype.startTransaction
TunnelStartTransaction(s) ==
  IF s.transaction # NULL
    THEN TxStart(EmitRequest(s, s.transaction), s.transaction, 0)
    ELSE s

\* sendRequest that overwrites the next slot instead of rejecting
TunnelSendRequestOverwrite(s, t) ==
  IF s.transaction # NULL
    THEN [s EXCEPT !.nextTransaction = t]
    ELSE TunnelStartTransaction([s EXCEPT !.transaction = t])

\* TunnelTransport.prototype.sendRequest
TunnelSendRequest(s, t) ==
  IF s.transaction # NULL
    THEN IF s.nextTransaction # NULL
           THEN Throw(s)
           ELSE [s EXCEPT !.nextTransaction = t]
    ELSE TunnelStartTransaction([s EXCEPT !.transaction = t])

\* TunnelTransport.prototype.flushReader
TunnelFlushReader(s) == [s EXCEPT !.reader = << >>]

\* a skipResponseData that drops the current transaction and leaves the
\* next one in its slot
TunnelSkipResponseDataKeepNext(s) ==
  [TunnelFlushReader(s) EXCEPT !.transaction = NULL]

\* TunnelTransport.prototype.skipResponseData
TunnelSkipResponseData(s) ==
  LET s1 == TunnelFlushReader(s)
  IN  TunnelStartTransaction(
        [s1 EXCEPT !.transaction = s1.nextTransaction,
                   !.nextTransaction = NULL])

\* TunnelTransport.prototype.handleTimeout
TunnelHandleTimeout(s) == TunnelSkipResponseData([s EXCEPT !.eofTimer = FALSE])

\* buildAdu that leaves the target unit out of the reply
TunnelBuildAduNoUnit(s, t) ==
  IF t # NULL
    THEN TxSetAdu(s, t,
           rtuFrameBytes(defaultSlaveId,
             << SLAVE_COMMAND, s.sequence >>
               \o ReadObjectRequest_toBuffer(objectId)))
    ELSE s

\* TunnelTransport.prototype.buildAdu: with a transaction, the request
\* behind SLAVE_COMMAND, the sequence and the target unit, cached in the
\* transaction; without one, the bare SLAVE_COMMAND and sequence
TunnelBuildAdu(s, t) ==
  IF t # NULL
    THEN TxSetAdu(s, t,
           rtuFrameBytes(defaultSlaveId,
             << SLAVE_COMMAND, s.sequence, defaultUnit >>
               \o ReadObjectRequest_toBuffer(objectId)))
    ELSE s

\* a getAdu that returns the minimal reply whatever is pending
TunnelAduBytesMinimal(s, t) ==
  rtuFrameBytes(defaultSlaveId, << SLAVE_COMMAND, s.sequence >>)

\* the bytes TunnelTransport.prototype.getAdu returns in state s
TunnelAduBytes(s, t) ==
  IF t # NULL /\ TxGetAdu(s, t) # << >>
    THEN TxGetAdu(s, t)
    ELSE IF t # NULL
      THEN TxGetAdu(TunnelBuildAdu(s, t), t)
      ELSE rtuFrameBytes(defaultSlaveId, << SLAVE_COMMAND, s.sequence >>)

\* TunnelTransport.prototype.getAdu: the state after the call
TunnelGetAdu(s, t) ==
  IF t # NULL /\ TxGetAdu(s, t) # << >> THEN s ELSE TunnelBuildAdu(s, t)

\* sendSlaveResponse that answers with the next transaction's request
TunnelSendSlaveResponseNext(s) ==
  LET t == IF s.nextTransaction # NULL THEN s.nextTransaction
           ELSE s.transaction
  IN  ConnWrite(TunnelGetAdu(s, t), t, TunnelAduBytes(s, t))

\* a sendSlaveResponse that sends a transaction's request once and answers
\* the later polls with the minimal reply
TunnelSendSlaveResponseOnce(s) ==
  IF s.transaction # NULL /\ s.ev[s.transaction].written > 0
    THEN ConnWrite(s, NULL, TunnelAduBytes(s, NULL))
    ELSE ConnWrite(TunnelGetAdu(s, s.transaction), s.transaction,
                   TunnelAduBytes(s, s.transaction))

\* TunnelTransport.prototype.sendSlaveResponse
TunnelSendSlaveResponse(s) ==
  ConnWrite(TunnelGetAdu(s, s.transaction), s.transaction,
            TunnelAduBytes(s, s.transaction))

-----------------------------------------------------------------------------
(* Master and the Transaction's handlers.  Master.js and Transaction.js    *)
(* are not in the source tree; modelled from sections 4.2, 4.6 and 5.      *)

\* transport.sendRequest(transaction) of the transport the master owns
SendRequest(s, t) ==
  CASE kind = "rtu" -> RtuSendRequest(s, t)
    [] kind = "ip" -> IpSendRequest(s, t)
    [] kind = "tunnel" -> TunnelSendRequest(s, t)

\* an exception nobody catches reaches the event loop
Uncaught(s) == [s EXCEPT !.obs.threw = FALSE, !.obs.uncaught = TRUE]

RECURSIVE ExecuteUngated(_)
\* a drain that ignores the concurrency gate
ExecuteUngated(s) ==
  IF s.requestQueue # << >> /\ ~s.destroyed
    THEN LET t == Head(s.requestQueue)
             r == SendRequest([s EXCEPT !.requestQueue = Tail(@)], t)
         IN  IF r.obs.threw
               THEN Uncaught(r)
               ELSE ExecuteUngated(
                      [r EXCEPT !.executingRequests = @ + 1,
                                !.obs.sent = @ \cup {t}])
    ELSE s

RECURSIVE ExecuteQueuedRequests(_)
\* Master: drain the queue while the concurrency gate has room (4.6)
ExecuteQueuedRequests(s) ==
  IF /\ s.requestQueue # << >>
     /\ s.executingRequests < maxConcurrentRequests
     /\ ~s.destroyed
    THEN LET t == Head(s.requestQueue)
             r == SendRequest([s EXCEPT !.requestQueue = Tail(@)], t)
         IN  IF r.obs.threw
               THEN Uncaught(r)
               ELSE ExecuteQueuedRequests(
                      [r EXCEPT !.executingRequests = @ + 1,
                                !.obs.sent = @ \cup {t}])
    ELSE s

\* the transaction fires `complete` with (err, res); the master's gate
\* gets room and the queue is drained
Complete(s, t, err, res) ==
  ExecuteQueuedRequests(
    [s EXCEPT !.txn[t].state = "completed",
              !.txn[t].timer = FALSE,
              !.ev[t].complete = Inc(@),
              !.ev[t].outcome = [err |-> err, res |-> res],
              !.executingRequests = @ - 1,
              !.obs.sent = @ \ {t},
              !.obs.fired = Append(@, t)])

\* the retry loop (4.6): one retry is spent and the transaction is
\* re-submitted with transport.sendRequest, its cached ADU reused
Retry(s, t) ==
  LET r == SendRequest([s EXCEPT !.txn[t].retries = @ - 1], t)
  IN  IF r.obs.threw THEN Uncaught(r) ELSE r

\* the errors handleError re-issues on (4.2)
Retriable(err) ==
  err \in {"IncompleteResponseFrame", "InvalidChecksum", "Timeout"}

\* what every notification does first: the attempt is over, its timer is
\* stopped; an event that fires on a completed transaction is counted
Notified(s, t) ==
  [s EXCEPT !.txn[t].timer = FALSE,
            !.obs.open = @ \ {t},
            !.ev[t].late = IF s.txn[t].state = "completed" THEN Inc(@) ELSE @]

\* an attempt of t ended in a failure: an error, a timeout or an exception
\* response
Failed(s, t, what) ==
  [Notified(s, t) EXCEPT !.obs.failures = Append(@, [tx |-> t, what |-> what])]

\* a cancelled or destroyed transaction fires no event; that the transport
\* still handed it something is observed
Dropped(s, t) ==
  [s EXCEPT !.obs.open = @ \ {t},
            !.obs.toDestroyed = @ \/ s.txn[t].state = "destroyed"]

\* Transaction.handleResponse(response) (4.2)
TxHandleResponse(s, t, response) ==
  IF s.txn[t].state \in {"cancelled", "destroyed"}
    THEN Dropped(s, t)
    ELSE IF response.kind = "exception"
      THEN IF retryOnException /\ s.txn[t].retries > 0
             THEN Retry(Failed(s, t, "exception"), t)
             ELSE Complete(Failed(s, t, "exception"), t, "none", "exception")
      ELSE Complete(Notified(s, t), t, "none", response.kind)

\* Transaction.handleError(error) (4.2)
TxHandleError(s, t, error) ==
  IF s.txn[t].state \in {"cancelled", "destroyed"}
    THEN Dropped(s, t)
    ELSE IF Retriable(error) /\ s.txn[t].retries > 0
      THEN Retry(Failed(s, t, error), t)
      ELSE Complete(Failed(s, t, error), t, error, "none")

\* the transports' `try { transaction.handleResponse(request.createResponse(
\* buffer)); } catch (error) { transaction.handleError(error); }`: what
\* createResponse throws goes to handleError, and so does what handleResponse
\* itself throws, a listener of the transaction's events raising
\* (obs.listenerRaises; no listener of the model's runs does)
Caught(s, t, response) ==
  IF response.kind = "throw"
    THEN TxHandleError(s, t, response.error)
    ELSE LET r == TxHandleResponse(s, t, response)
         IN  IF s.obs.listenerRaises
               THEN TxHandleError(r, t, "ListenerError")
               ELSE r

\* the handler the transport passed to Transaction.start
OnTimeout(s, t) ==
  CASE kind = "rtu" -> RtuHandleTimeout(s)
    [] kind = "ip" -> IpTimeoutHandler(s, s.txn[t].onTimeout)
    [] kind = "tunnel" -> TunnelHandleTimeout(s)

\* the Transaction's timer fires (4.2 start): onTimeout is invoked, then
\* the transaction is re-issued if retries remain and else completes with
\* a Timeout error
TxHandleTimeout(s, t) ==
  LET s1 == OnTimeout(Failed(s, t, "Timeout"), t)
  IN  IF s.txn[t].retries > 0
        THEN Retry(s1, t)
        ELSE Complete(s1, t, "Timeout", "none")

\* Transaction.cancel() (4.2, 5): cancelled, timer cleared, out of the
\* master's queue
TxCancel(s, t) ==
  [s EXCEPT !.txn[t].state = "cancelled",
            !.txn[t].timer = FALSE,
            !.requestQueue = SeqWithout(@, t)]

\* Transaction.destroy(), which the transports' destroy() calls: listeners
\* removed, timer cleared
TxDestroy(s, t) ==
  [s EXCEPT !.txn[t].state = "destroyed", !.txn[t].timer = FALSE,
            !.obs.open = @ \ {t}]

-----------------------------------------------------------------------------
(* RtuTransport: the inbound side. *)

\* an onData that buffers whatever arrives, a transaction pending or not
RtuOnDataAlways(s, data) == [s EXCEPT !.reader = @ \o data, !.eofTimer = TRUE]

\* RtuTransport.prototype.onData
RtuOnData(s, data) ==
  IF s.transaction = NULL
    THEN s
    ELSE [s EXCEPT !.reader = @ \o data, !.eofTimer = TRUE]

\* the tail of handleFrameData once unit, responseBuffer and checksum have
\* been shifted off the reader: skipResponseData, validate, then the
\* response or the error is handed to the transaction
RtuDeliver(s, t, unit, responseBuffer, checksum) ==
  LET s1 == RtuSkipResponseData(s)
      validationError == RtuValidate(defaultUnit, unit, responseBuffer, checksum)
      response == createResponse(responseBuffer)
  IN  IF validationError # "none"
        THEN TxHandleError(s1, t, validationError)
        ELSE Caught(s1, t, response)

\* shiftByte, shiftBuffer(length - 2), shiftUInt16(true) on `frame`, then
\* the delivery.  h5.buffers refuses a count below 1: the exception leaves
\* the timer callback with the reader as far as it was consumed.
RtuShiftAndDeliver(s, t, frame) ==
  IF Len(frame) - 3 < 1
    THEN Uncaught([s EXCEPT !.reader = Slice(frame, 1)])
    ELSE RtuDeliver(s, t, frame[1],
                    SubSeq(frame, 2, Len(frame) - 2),
                    frame[Len(frame) - 1] + (256 * frame[Len(frame)]))

\* the echo branch's updates of PREV_MSG_COUNT: 0 when the reader holds
\* fewer bytes than it says, then 1 when it is 0; what is left is the
\* number of bytes skipped as the echo
RtuEchoCount(s) ==
  LET p0 == IF Len(s.reader) < s.PREV_MSG_COUNT THEN 0 ELSE s.PREV_MSG_COUNT
  IN  IF p0 = 0 THEN 1 ELSE p0

\* RtuTransport.prototype.handleFrameData: the end-of-frame timer fired
RtuHandleFrameData(s0) ==
  LET s == [s0 EXCEPT !.eofTimer = FALSE]
      t == s.transaction
      n == Len(s.reader)
      p1 == RtuEchoCount(s)
  IN  IF t = NULL
        THEN Uncaught(s)
        ELSE IF n < MIN_FRAME_LENGTH
          THEN TxHandleError(RtuSkipResponseData(s), t, "IncompleteResponseFrame")
          ELSE IF enableEcho
            THEN IF n > p1
                   THEN RtuShiftAndDeliver([s EXCEPT !.PREV_MSG_COUNT = p1], t,
                                           Slice(s.reader, p1))
                   ELSE [s EXCEPT !.PREV_MSG_COUNT = p1, !.reader = << >>]
            ELSE RtuShiftAndDeliver(s, t, s.reader)

\* RtuTransport.prototype.destroy
RtuDestroy(s) ==
  LET s1 == IF s.transaction # NULL THEN TxDestroy(s, s.transaction) ELSE s
  IN  [s1 EXCEPT !.transaction = NULL, !.eofTimer = FALSE, !.destroyed = TRUE]

-----------------------------------------------------------------------------
(* IpTransport: the inbound side. *)

\* IpTransport.Header.prototype.read: seven bytes off the reader
IpHeaderRead(s) ==
  [s EXCEPT !.header = [id |-> (256 * s.reader[1]) + s.reader[2],
                        version |-> (256 * s.reader[3]) + s.reader[4],
                        length |-> ((256 * s.reader[5]) + s.reader[6]) - 1,
                        unit |-> s.reader[7]],
            !.reader = Slice(@, 7)]

\* IpTransport.Header.prototype.validate: "none" stands for null
IpHeaderValidate(h, expectedUnit) ==
  IF h.version # 0 THEN "InvalidResponseData"
  ELSE IF h.length = 0 THEN "InvalidResponseData"
  ELSE IF h.unit # expectedUnit THEN "InvalidResponseData"
  ELSE "none"

\* a skipResponseData that forgets the header and leaves the payload
IpSkipResponseDataHeaderOnly(s) == [s EXCEPT !.header = emptyHeader]

\* IpTransport.prototype.skipResponseData
IpSkipResponseData(s) ==
  [s EXCEPT !.reader = IF s.header.length > 0 THEN Slice(@, s.header.length) ELSE @,
            !.header = emptyHeader]

RECURSIVE IpParse(_)
RECURSIVE IpHandleFrameData(_)

\* IpTransport.prototype.onData once the data, if any, is in the reader
IpParse(s) ==
  LET s1 == IF s.header.id = NO_HEADER /\ Len(s.reader) >= 7
              THEN IpHeaderRead(s) ELSE s
  IN  IF s1.header.id # NO_HEADER /\ Len(s1.reader) >= s1.header.length
        THEN IpHandleFrameData(s1)
        ELSE s1

\* IpTransport.prototype.handleFrameData
IpHandleFrameData(s) ==
  IF s.header.id \notin DOMAIN s.transactions
    THEN IpParse(IpSkipResponseData(s))
    ELSE
      LET t == s.transactions[s.header.id]
          s1 == [s EXCEPT !.transactions = Without(@, s.header.id),
                          !.obs.delivered =
                             Append(@, [id |-> s.header.id, tx |-> t,
                                        adu |-> TxGetAdu(s, t)])]
          validationError == IpHeaderValidate(s.header, defaultUnit)
          response == createResponse(Take(s1.reader, s.header.length))
          s2 == [s1 EXCEPT !.reader = Slice(@, s.header.length),
                           !.header = emptyHeader]
      IN  IF validationError # "none"
            THEN IpParse(TxHandleError(IpSkipResponseData(s1), t, validationError))
            ELSE IF s.header.length < 1
              THEN Uncaught(s1)
              ELSE IpParse(Caught(s2, t, response))

\* IpTransport.prototype.onData with data
IpOnData(s, data) == IpParse([s EXCEPT !.reader = @ \o data])

\* IpTransport.prototype.destroy
RECURSIVE TxDestroyAll(_, _)
TxDestroyAll(s, ts) ==
  IF ts = {} THEN s
  ELSE LET t == CHOOSE x \in ts : TRUE
       IN  TxDestroyAll(TxDestroy(s, t), ts \ {t})

IpDestroy(s) ==
  [TxDestroyAll(s, {s.transactions[i] : i \in DOMAIN s.transactions})
     EXCEPT !.transactions = << >>, !.destroyed = TRUE]

-----------------------------------------------------------------------------
(* TunnelTransport: the inbound side. *)

\* TunnelTransport.prototype.onData
TunnelOnData(s, data) == [s EXCEPT !.reader = @ \o data, !.eofTimer = TRUE]

\* this.emit('sniff', tag, buffer)
EmitSniff(s, tag) == [s EXCEPT !.obs.sniff = Append(@, tag)]

\* a validate that accepts every checksum
TunnelValidateNothing(actualUnit, responseBuffer, expectedChecksum) == "none"

\* TunnelTransport.prototype.validate: only the checksum is compared
TunnelValidate(actualUnit, responseBuffer, expectedChecksum) ==
  IF crc16(actualUnit, responseBuffer) # expectedChecksum
    THEN "InvalidChecksum" ELSE "none"

\* an in-sequence branch whose sequence does not wrap
TunnelInSequenceNoWrap(s, responseBuffer) ==
  LET s1 == [s EXCEPT !.sequence = @ + 1]
      t == s1.transaction
      s2 == [s1 EXCEPT !.transaction = s1.nextTransaction,
                       !.nextTransaction = NULL]
      response == createResponse(Slice(responseBuffer, 3))
  IN  IF t # NULL /\ Len(responseBuffer) > 2
        THEN TunnelStartTransaction(Caught(s2, t, response))
        ELSE s1

\* the in-sequence branch of handleFrameData: the sequence moves on and a
\* pending transaction is closed with whatever follows the third PDU byte
TunnelInSequence(s, responseBuffer) ==
  LET s1 == [s EXCEPT !.sequence = (@ + 1) % 256]
      t == s1.transaction
      s2 == [s1 EXCEPT !.transaction = s1.nextTransaction,
                       !.nextTransaction = NULL]
      response == createResponse(Slice(responseBuffer, 3))
  IN  IF t # NULL /\ Len(responseBuffer) > 2
        THEN TunnelStartTransaction(Caught(s2, t, response))
        ELSE s1

\* handleFrameData that answers the polls of every slave
TunnelHandleFrameDataAnyUnit(s0) ==
  LET s == [s0 EXCEPT !.eofTimer = FALSE]
      n == Len(s.reader)
      unit == s.reader[1]
      responseBuffer == SubSeq(s.reader, 2, n - 2)
      checksum == s.reader[n - 1] + (256 * s.reader[n])
      s1 == TunnelFlushReader(s)
  IN  IF n < TUNNEL_MIN_FRAME_LENGTH
        THEN TunnelFlushReader(EmitSniff(s, "incomplete"))
        ELSE IF TunnelValidate(unit, responseBuffer, checksum) # "none"
          THEN EmitSniff(s1, "bad checksum")
          ELSE LET s2 == EmitSniff(s1, "pdu")
               IN  IF responseBuffer[1] = SLAVE_COMMAND
                     THEN TunnelSendSlaveResponse(
                            IF Len(responseBuffer) > 1
                               /\ responseBuffer[2] = s2.sequence
                              THEN TunnelInSequence(s2, responseBuffer)
                              ELSE s2)
                     ELSE s2

\* TunnelTransport.prototype.handleFrameData: the end-of-frame timer fired
TunnelHandleFrameData(s0) ==
  LET s == [s0 EXCEPT !.eofTimer = FALSE]
      n == Len(s.reader)
      unit == s.reader[1]
      responseBuffer == SubSeq(s.reader, 2, n - 2)
      checksum == s.reader[n - 1] + (256 * s.reader[n])
      s1 == TunnelFlushReader(s)
  IN  IF n < TUNNEL_MIN_FRAME_LENGTH
        THEN TunnelFlushReader(EmitSniff(s, "incomplete"))
        ELSE IF TunnelValidate(unit, responseBuffer, checksum) # "none"
          THEN EmitSniff(s1, "bad checksum")
          ELSE LET s2 == EmitSniff(s1, "pdu")
               IN  IF unit = defaultSlaveId
                     THEN IF responseBuffer[1] = SLAVE_COMMAND
                            THEN TunnelSendSlaveResponse(
                                   IF Len(responseBuffer) > 1
                                      /\ responseBuffer[2] = s2.sequence
                                     THEN TunnelInSequence(s2, responseBuffer)
                                     ELSE s2)
                            ELSE s2
                     ELSE s2

\* destroy that forgets the next transaction
TunnelDestroyCurrentOnly(s) ==
  LET s1 == IF s.transaction # NULL THEN TxDestroy(s, s.transaction) ELSE s
  IN  [s1 EXCEPT !.transaction = NULL, !.eofTimer = FALSE, !.destroyed = TRUE]

\* TunnelTransport.prototype.destroy
TunnelDestroy(s) ==
  LET s1 == IF s.transaction # NULL THEN TxDestroy(s, s.transaction) ELSE s
      s2 == IF s.nextTransaction # NULL
              THEN TxDestroy(s1, s.nextTransaction) ELSE s1
  IN  [s2 EXCEPT !.transaction = NULL, !.nextTransaction = NULL,
                 !.eofTimer = FALSE, !.destroyed = TRUE]

-----------------------------------------------------------------------------
(* Master: the application's calls.  Modelled from section 4.6. *)

\* transport.destroy() of the transport the master owns
TransportDestroy(s) ==
  CASE kind = "rtu" -> RtuDestroy(s)
    [] kind = "ip" -> IpDestroy(s)
    [] kind = "tunnel" -> TunnelDestroy(s)

RECURSIVE CancelAll(_, _)
CancelAll(s, q) ==
  IF q = << >> THEN s ELSE CancelAll(TxCancel(s, Head(q)), Tail(q))

\* Master.destroy(): cancel every queued transaction, then tear down the
\* transport
MasterDestroy(s) == TransportDestroy(CancelAll(s, s.requestQueue))

\* Master.execute(): a new transaction with its retry budget joins the
\* queue, which is drained if the gate has room
MasterExecute(s, t, maxRetries) ==
  ExecuteQueuedRequests(
    [s EXCEPT !.txn[t].state = "pending",
              !.txn[t].retries = maxRetries,
              !.txn[t].maxRetries = maxRetries,
              !.requestQueue = Append(@, t)])

-----------------------------------------------------------------------------
(* What the peer may put on the wire. *)

\* response PDUs: a ReadObjectResponse with one data byte, an exception
\* response (illegal data address), a PDU of another function code
okPdu == << theFunctionCode, 1, 10 >>
exceptionPdu == << theFunctionCode + 128, 2 >>
foreignPdu == << theFunctionCode + 1, 0 >>

\* a frame with its last CRC byte changed
Corrupt(frame) == [frame EXCEPT ![Len(frame)] = (@ + 1) % 256]

\* a response to a ReadMemory request
memoryPdu == << readMemoryCode, 10 >>

\* the response a slave gives to a request of type r
OkPdu(r) == IF r = "ReadMemory" THEN memoryPdu ELSE okPdu

\* the echo of a request of type r: the bytes the master wrote, read back
theEcho == [r \in Requests |-> rtuFrameBytes(defaultUnit, RequestPdu(r))]

\* chunks a serial peer sends to an RTU master whose requests are of type
\* r: well-formed frames from the addressed unit, a frame from another
\* unit, a frame with a bad CRC, a frame from another unit with a bad CRC,
\* a truncated frame, the echo of the request, and the echo with the
\* response behind it
RtuChunksFor ==
  [r \in Requests |->
     { rtuFrameBytes(defaultUnit, OkPdu(r)),
       rtuFrameBytes(defaultUnit, exceptionPdu),
       rtuFrameBytes(defaultUnit, foreignPdu),
       rtuFrameBytes(defaultUnit + 1, okPdu),
       Corrupt(rtuFrameBytes(defaultUnit, okPdu)),
       Corrupt(rtuFrameBytes(defaultUnit + 1, okPdu)),
       << defaultUnit, theFunctionCode, 1 >>,
       theEcho[r],
       theEcho[r] \o rtuFrameBytes(defaultUnit, OkPdu(r)) }]

RtuChunks == RtuChunksFor[request]

\* an MBAP header whose length field is 0, with nothing behind it
ipZeroLength(id) == UInt16BE(id) \o UInt16BE(0) \o UInt16BE(0) \o << defaultUnit >>

\* frames a TCP peer sends: for a txid, a response, an exception, a header
\* with a wrong protocol id, a header with a wrong unit, a length field
\* that counts the unit byte only
IpFrames(id) ==
  { ipFrame(id, defaultUnit, okPdu),
    ipFrame(id, defaultUnit, exceptionPdu),
    [ipFrame(id, defaultUnit, okPdu) EXCEPT ![4] = 1],
    ipFrame(id, defaultUnit + 1, okPdu),
    ipFrame(id, defaultUnit, << >>) }

\* chunks the bus master sends on a Tunnel bus when the transport's
\* sequence is seq: polls in sequence with and without a response behind
\* the unit byte, a poll out of sequence, traffic that is no poll of ours,
\* and a poll of another slave
TunnelChunks(seq) ==
  { rtuFrameBytes(defaultSlaveId, << SLAVE_COMMAND, seq >>),
    rtuFrameBytes(defaultSlaveId, << SLAVE_COMMAND, seq, defaultUnit >> \o okPdu),
    rtuFrameBytes(defaultSlaveId,
                  << SLAVE_COMMAND, seq, defaultUnit >> \o exceptionPdu),
    rtuFrameBytes(defaultSlaveId, << SLAVE_COMMAND, (seq + 1) % 256 >>),
    rtuFrameBytes(defaultSlaveId, okPdu),
    rtuFrameBytes(defaultUnit, << SLAVE_COMMAND, seq >>),
    Corrupt(rtuFrameBytes(defaultSlaveId, << SLAVE_COMMAND, seq >>)),
    << defaultSlaveId, SLAVE_COMMAND, seq >> }

\* the same, computed once for every sequence number the model reaches
TunnelChunksAt == [seq \in 0 .. MaxPolls |-> TunnelChunks(seq)]

-----------------------------------------------------------------------------
(* The state after construction. *)

newTransaction ==
  [state |-> "new", retries |-> 0, maxRetries |-> 0, timer |-> FALSE,
   adu |-> << >>, onTimeout |-> 0]

nothingObserved ==
  [complete |-> 0, outcome |-> [err |-> "none", res |-> "none"], late |-> 0,
   written |-> 0, request |-> 0, aduSet |-> 0]

\* nothing written in this turn
noWrite == [tx |-> NULL, current |-> NULL, others |-> {}, bytes |-> << >>]

\* the master, its transport and the application's transactions as they
\* are constructed
Constructed ==
  /\ txn = [t \in T \cup {probe} |-> newTransaction]
  /\ ev = [t \in T \cup {probe} |-> nothingObserved]
  /\ requestQueue = << >>
  /\ executingRequests = 0
  /\ transaction = NULL
  /\ nextTransaction = NULL
  /\ reader = << >>
  /\ eofTimer = FALSE
  /\ sequence = 0
  /\ transactions = << >>
  /\ nextTransactionId = 0
  /\ header = emptyHeader
  /\ PREV_MSG_COUNT = 0
  /\ destroyed = FALSE
  /\ obs = [threw |-> FALSE, thrown |-> 0, uncaught |-> FALSE, open |-> {},
            sent |-> {}, cancelled |-> FALSE, toDestroyed |-> FALSE,
            lastWrite |-> noWrite, fired |-> << >>, delivered |-> << >>,
            frames |-> << >>, failures |-> << >>, sniff |-> << >>,
            listenerRaises |-> FALSE]

\* the options a codec call is made with
Options(code, id, max, address, count, values, data) ==
  [code |-> code, id |-> id, max |-> max, address |-> address,
   count |-> count, values |-> values, data |-> data]

noOptions == Options(0, 0, 0, 0, 0, << >>, << >>)

\* a call of the codec: the function, the type it is called on, its
\* options or its buffer
Call(op, type, options, buffer) ==
  [op |-> op, type |-> type, options |-> options, buffer |-> buffer]

\* no codec call is followed: the transports' runs
noCall == Call("none", "none", noOptions, << >>)

\* the call has not returned
pending == [kind |-> "pending"]

\* the master is configured with a gate no wider than what its transport
\* holds: one transaction for RTU, two for Tunnel; the application's
\* requests are ReadObject requests, on RTU in some runs ReadMemory requests
Init ==
  /\ kind \in {"rtu", "ip", "tunnel"}
  /\ retryOnException \in BOOLEAN
  /\ maxConcurrentRequests \in
       IF kind = "rtu" THEN {1}
       ELSE IF kind = "tunnel" THEN {1, 2}
       ELSE 1 .. MaxGate
  /\ enableEcho \in IF kind = "rtu" THEN BOOLEAN ELSE {FALSE}
  /\ request \in IF kind = "rtu" THEN Requests ELSE {"ReadObject"}
  /\ Constructed
  /\ call = noCall
  /\ ret = pending

-----------------------------------------------------------------------------
(* The actions: one per application call, timer callback or data event,   *)
(* each one turn of the event loop.                                        *)

\* what is observed of one turn starts empty
Turn(s) ==
  [s EXCEPT !.obs.lastWrite = noWrite, !.obs.fired = << >>,
            !.obs.delivered = << >>, !.obs.frames = << >>,
            !.obs.failures = << >>, !.obs.sniff = << >>]

\* the application submits its next request through the master
Execute(t, maxRetries) ==
  /\ ~destroyed
  /\ txn[t].state = "new"
  /\ \A u \in T : u < t => txn[u].state # "new"
  /\ Becomes(MasterExecute(Turn(S), t, maxRetries))

\* a transaction's response timer fires
TimerFires(t) ==
  /\ txn[t].timer
  /\ Becomes(TxHandleTimeout(Turn(S), t))

\* the application cancels a transaction it submitted
Cancel(t) ==
  /\ ~destroyed
  /\ Live(txn[t].state)
  /\ Becomes([TxCancel(Turn(S), t) EXCEPT !.obs.cancelled = TRUE])

\* the application destroys the master
Destroy ==
  /\ ~destroyed
  /\ Becomes(MasterDestroy(Turn(S)))

\* a caller other than the master's gate calls transport.sendRequest while
\* the transport is full: the call is rejected
DirectSendRequest ==
  /\ ~destroyed
  /\ kind \in {"rtu", "tunnel"}
  /\ obs.thrown < MaxDirect
  /\ LET r == SendRequest(Turn(S), probe)
     IN  /\ r.obs.threw
         /\ Becomes([r EXCEPT !.obs.threw = FALSE, !.obs.thrown = @ + 1])

\* bytes arrive at an RTU transport
RtuData(chunk) ==
  /\ kind = "rtu"
  /\ ~destroyed
  /\ reader = << >> \/ Len(reader) + Len(chunk) <= MaxReader
  /\ Becomes(RtuOnData(Turn(S), chunk))

\* the RTU end-of-frame timer fires
RtuEof ==
  /\ kind = "rtu"
  /\ eofTimer
  /\ Becomes(RtuHandleFrameData(Turn(S)))

\* bytes arrive at an IP transport: frames for the txids `ids`
IpData(chunk, ids) ==
  /\ kind = "ip"
  /\ ~destroyed
  /\ Becomes(IpOnData([Turn(S) EXCEPT !.obs.frames = ids], chunk))

\* bytes arrive at a Tunnel transport
TunnelData(chunk) ==
  /\ kind = "tunnel"
  /\ ~destroyed
  /\ sequence < MaxPolls
  /\ reader = << >> \/ Len(reader) + Len(chunk) <= MaxReader
  /\ Becomes(TunnelOnData(Turn(S), chunk))

\* the Tunnel end-of-frame timer fires
TunnelEof ==
  /\ kind = "tunnel"
  /\ eofTimer
  /\ Becomes(TunnelHandleFrameData(Turn(S)))

\* the txids a TCP peer may answer: those allocated so far
IpIds == 1 .. nextTransactionId

Next ==
  \/ \E t \in T, r \in 0 .. MaxRetries : Execute(t, r)
  \/ \E t \in T : TimerFires(t)
  \/ \E t \in T : Cancel(t)
  \/ Destroy
  \/ DirectSendRequest
  \/ \E chunk \in RtuChunks : RtuData(chunk)
  \/ RtuEof
  \/ \E id \in IpIds : \E f \in IpFrames(id) : IpData(f, << id >>)
  \/ \E id \in IpIds, id2 \in IpIds :
       IpData(ipFrame(id, defaultUnit, okPdu) \o ipFrame(id2, defaultUnit, okPdu),
              << id, id2 >>)
  \/ \E chunk \in TunnelChunksAt[sequence % (MaxPolls + 1)] : TunnelData(chunk)
  \/ TunnelEof

Spec == Init /\ [][Next]_vars


-----------------------------------------------------------------------------
(* The codec on its own: a call of a codec function with arguments drawn   *)
(* from bounded sets, and its return.                                      *)

\* the longest data buffer of a codec call, and the bytes it is made of
MaxData == 2
DataBytes == {1, 2}

\* the data buffers: every sequence of DataBytes up to MaxData bytes
DataBuffers ==
  UNION { [1 .. n -> DataBytes] : n \in 0 .. MaxData }

\* option values at and between the ends of their ranges
IdOptions == {0, 1, 255}
MaxOptions == {0, 1, 250}
AddressOptions == {0, 258, 65535}
CountOptions == {1, 250}

\* the options the request types are constructed from
OptionsOf(type) ==
  CASE type = "ReadFifo8Request" ->
         { Options(65, id, max, 0, 0, << >>, << >>) :
             id \in IdOptions, max \in MaxOptions }
    [] type = "WriteFifo8Request" ->
         { Options(66, id, 0, 0, 0, values, << >>) :
             id \in IdOptions, values \in DataBuffers }
    [] type = "ReadObjectRequest" ->
         { Options(67, id, 0, 0, 0, << >>, << >>) : id \in IdOptions }
    [] type = "WriteObjectRequest" ->
         { Options(68, id, 0, 0, 0, values, << >>) :
             id \in IdOptions, values \in DataBuffers }
    [] type = "ReadMemoryRequest" ->
         { Options(69, 0, 0, address, count, << >>, << >>) :
             address \in AddressOptions, count \in CountOptions }
    [] type = "WriteMemoryRequest" ->
         { Options(70, 0, 0, address, 0, values, << >>) :
             address \in AddressOptions, values \in DataBuffers }
    [] type = "CommandRequest" ->
         { Options(71, id, 0, 0, 0, << >>, data) :
             id \in IdOptions, data \in DataBuffers }
    [] type = "ReportSlaveIdRequest" ->
         { Options(17, 0, 0, 0, 0, << >>, << >>) }

\* well-formed response PDUs, laid out as the function code catalog of
\* section 6 lays them out
ResponsePdus(type) ==
  CASE type = "ReadFifo8Response" ->
         { << 65, status, Len(d) >> \o d : status \in 0 .. 3, d \in DataBuffers }
    [] type = "WriteFifo8Response" -> { << 66, n >> : n \in MaxOptions }
    [] type = "ReadObjectResponse" ->
         { << 67, Len(d) >> \o d : d \in DataBuffers }
    [] type = "WriteObjectResponse" -> { << 68, status >> : status \in 0 .. 1 }
    [] type = "ReadMemoryResponse" ->
         { << 69 >> \o d : d \in DataBuffers \ {<< >>} }
    [] type = "WriteMemoryResponse" -> { << 70, status >> : status \in 0 .. 1 }
    [] type = "CommandResponse" ->
         { << 71, id >> \o d : id \in IdOptions, d \in DataBuffers }
    [] type = "WriteSingleCoilResponse" ->
         { << 5 >> \o UInt16BE(address) \o UInt16BE(value) :
             address \in AddressOptions, value \in {0, 65280} }
    [] type = "ReportSlaveIdResponse" ->
         { << 17, 5 + Len(d), product, run >> \o version \o d :
             product \in {1, 255}, run \in {0, 255},
             version \in { << 1, 2, 3 >>, << 10, 0, 255 >> }, d \in DataBuffers }
    [] type = "ReadDiagnosticsResponse" ->
         { << 8 >> \o UInt16BE(sub) \o UInt16BE(data) :
             sub \in {0, 1}, data \in {0, 1, 42295} }

\* the types whose PDU carries a count of the data bytes behind it, with
\* the offset of the count
Counted ==
  ("ReadObjectResponse" :> 2) @@ ("ReadFifo8Response" :> 3)
  @@ ("WriteFifo8Request" :> 3) @@ ("WriteObjectRequest" :> 3)

\* the function code of a counted type
CodeOf(type) ==
  CASE type = "ReadObjectResponse" -> 67
    [] type = "ReadFifo8Response" -> 65
    [] type = "WriteFifo8Request" -> 66
    [] type = "WriteObjectRequest" -> 68

\* PDUs of a counted type: the count announces as many bytes as follow,
\* more than follow, or the PDU is shorter than the type's fixed part, its
\* function code right or wrong
CountedPdus(type) ==
  LET head == [i \in 1 .. Counted[type] - 2 |-> 1]
  IN  { << code >> \o head \o << n >> \o d :
          code \in {CodeOf(type), 1}, n \in 0 .. MaxData + 1, d \in DataBuffers }
      \cup { << code >> \o head : code \in {CodeOf(type), 1} }

\* response buffers handed to createResponse: first bytes around 0x80
ResponseBuffers ==
  { << first >> \o tail :
      first \in {0, theFunctionCode, readMemoryCode, 127, 128, 129,
                 theFunctionCode + 128, 255},
      tail \in {<< >>, << 1 >>, << 1, 10 >>} }
    \cup {<< >>}

\* unit and PDU of frames to checksum: ReportSlaveId to unit 1, the frames
\* of section 8's scenarios 1 and 2, a poll of the tunnel
CrcInputs ==
  { << 1, 17 >>, << 1, 3, 0, 0, 0, 3 >>, << 1, 131, 2 >>,
    << defaultSlaveId, SLAVE_COMMAND, 0 >> }

\* function codes: those of the catalog and some outside it
CodeOptions == DOMAIN registry \cup {0, 7, 9, 18, 22, 64, 72, 128, 255}

\* the codec calls
Calls ==
  UNION { { Call("RequestRoundTrip", type, o, << >>) : o \in OptionsOf(type) } :
            type \in RequestTypes }
    \cup { Call("FromOptions", "Request", Options(c, 1, 1, 1, 1, << 1 >>, << 1 >>), << >>) :
             c \in CodeOptions }
    \cup UNION { { Call("ResponseRoundTrip", type, noOptions, p) :
                     p \in ResponsePdus(type) } : type \in ResponseTypes }
    \cup UNION { { Call("FromBuffer", type, noOptions, p) :
                     p \in CountedPdus(type) } : type \in DOMAIN Counted }
    \cup { Call("CreateResponse", "Request", noOptions, b) : b \in ResponseBuffers }
    \cup { Call("Crc16", "Transport", noOptions, b) : b \in CrcInputs }

\* a codec call is about to be made; no transport is at work
CodecInit ==
  /\ kind = "rtu"
  /\ retryOnException = FALSE
  /\ maxConcurrentRequests = 1
  /\ enableEcho = FALSE
  /\ request \in Requests
  /\ Constructed
  /\ call \in Calls
  /\ ret = pending

\* the call returns
Returns(value) ==
  /\ ret = pending
  /\ ret' = value
  /\ UNCHANGED << kind, retryOnException, maxConcurrentRequests, enableEcho,
                  request, txn, ev, requestQueue, executingRequests,
                  transaction, nextTransaction, reader, eofTimer, sequence,
                  transactions, nextTransactionId, header, PREV_MSG_COUNT,
                  destroyed, obs, call >>

\* fromBuffer(toBuffer(fromOptions(options))) on a request type
RequestRoundTrip ==
  /\ call.op = "RequestRoundTrip"
  /\ LET made == FromOptions(call.type, call.options)
     IN  Returns([kind |-> "done", made |-> made,
                  back |-> IF made.kind = "request"
                             THEN FromBuffer(call.type, ToBuffer(made))
                             ELSE made])

\* toBuffer(fromBuffer(buffer)) on a response type
ResponseRoundTrip ==
  /\ call.op = "ResponseRoundTrip"
  /\ LET decoded == ResponseFromBuffer(call.type, call.buffer)
     IN  Returns([kind |-> "done", decoded |-> decoded,
                  bytes |-> IF decoded.kind = "response"
                              THEN ResponseToBuffer(call.type, decoded)
                              ELSE << >>])

\* fromBuffer(buffer) on a request or a response type
FromBufferCall ==
  /\ call.op = "FromBuffer"
  /\ Returns([kind |-> "done",
              value |-> IF call.type \in RequestTypes
                          THEN FromBuffer(call.type, call.buffer)
                          ELSE ResponseFromBuffer(call.type, call.buffer)])

\* request.createResponse(buffer) on a request of the run's type
CreateResponseCall ==
  /\ call.op = "CreateResponse"
  /\ Returns([kind |-> "done", value |-> createResponse(call.buffer)])

\* transport.frame(unit, pdu): the CRC and the bytes of the frame
Crc16Call ==
  /\ call.op = "Crc16"
  /\ Returns([kind |-> "done",
              crc |-> crc16(Head(call.buffer), Tail(call.buffer)),
              frame |-> rtuFrameBytes(Head(call.buffer), Tail(call.buffer))])

\* Request.fromOptions(options), through the registry
FromOptionsCall ==
  /\ call.op = "FromOptions"
  /\ Returns([kind |-> "done", value |-> Request_fromOptions(call.options)])

CodecNext ==
  \/ RequestRoundTrip
  \/ ResponseRoundTrip
  \/ FromBufferCall
  \/ CreateResponseCall
  \/ Crc16Call
  \/ FromOptionsCall

CodecSpec == CodecInit /\ [][CodecNext]_vars

-----------------------------------------------------------------------------
(* The contract of the specification, claim by claim. *)

Range(m) == {m[i] : i \in DOMAIN m}

RECURSIVE IsSubseq(_, _)
\* a is b with some elements left out
IsSubseq(a, b) ==
  IF a = << >> THEN TRUE
  ELSE IF b = << >> THEN FALSE
  ELSE IF Head(a) = Head(b) THEN IsSubseq(Tail(a), Tail(b))
  ELSE IsSubseq(a, Tail(b))

\* nobody cancelled a transaction or destroyed the master
Undisturbed == ~obs.cancelled /\ ~destroyed

\* `complete` carried (error, null) or (null, response)
WellFormedOutcome(o) == (o.err = "none") # (o.res = "none")

\* a live transaction is on its way to completion: it waits for the gate,
\* it waits as the Tunnel's next transaction, or its response timer runs
Progressing(t) ==
  \/ t \in SeqToSet(requestQueue)
  \/ txn[t].timer
  \/ kind = "tunnel" /\ nextTransaction = t

\* C1: every transaction submitted to the master fires `complete` exactly
\* once, with (error, null) or (null, response), and no response, error or
\* timeout event of it fires afterwards, whatever responses, malformed
\* frames, timeouts and retries follow: complete never fires twice, no
\* event reaches a completed transaction, and a transaction that has not
\* completed is still on its way to completion
C1_CompleteExactlyOnce ==
  \A t \in T :
    /\ ev[t].complete <= 1
    /\ ev[t].late = 0
    /\ ev[t].complete = 1 =>
         /\ txn[t].state = "completed"
         /\ WellFormedOutcome(ev[t].outcome)
         /\ ~txn[t].timer
    /\ txn[t].state = "completed" => ev[t].complete = 1
    /\ (Undisturbed /\ Live(txn[t].state)) => Progressing(t)

\* a transaction completed with a response on its second attempt
C1_Witness ==
  /\ Undisturbed
  /\ \E t \in T : /\ ev[t].complete = 1
                  /\ ev[t].written = 2
                  /\ ev[t].outcome.res = "response"

\* C2: the transactions the master has passed to transport.sendRequest and
\* that have not completed number at most maxConcurrentRequests; a request
\* beyond that waits in the master's queue, untouched by the transport, and
\* a request waits only while the gate is full
C2_ConcurrencyGate ==
  /\ Cardinality(obs.sent) <= maxConcurrentRequests
  /\ executingRequests = Cardinality(obs.sent)
  /\ \A t \in SeqToSet(requestQueue) :
       /\ t \notin obs.sent
       /\ ev[t].request = 0
       /\ ev[t].written = 0
  /\ requestQueue # << >> => Cardinality(obs.sent) = maxConcurrentRequests

\* behind a gate of one, the second request was written after the first
\* completed
C2_Witness ==
  /\ maxConcurrentRequests = 1
  /\ ev[1].complete = 1
  /\ ev[2].written > 0
  /\ 2 \in obs.sent

\* C3: RTU sendRequest called while a transaction is in flight throws; the
\* rejected call writes nothing, emits no `request` event, arms no timer
\* and leaves the in-flight transaction current: but for the exception the
\* state is the one before the call
C3_RtuRejectsSecondRequest ==
  (kind = "rtu" /\ transaction # NULL) => RtuSendRequest(S, probe) = Throw(S)

\* a call was rejected and the in-flight transaction is still current
C3_Witness ==
  /\ kind = "rtu"
  /\ obs.thrown > 0
  /\ transaction \in T
  /\ txn[transaction].timer

\* C4: Tunnel sendRequest with both slots occupied throws and changes
\* neither slot; with only current occupied it stores the transaction as
\* next without starting it; with no slot occupied it makes the
\* transaction current and starts it
C4_TunnelTwoSlots ==
  kind = "tunnel" =>
    LET r == TunnelSendRequest(S, probe)
    IN  /\ (transaction # NULL /\ nextTransaction # NULL) => r = Throw(S)
        /\ (transaction # NULL /\ nextTransaction = NULL) =>
             r = [S EXCEPT !.nextTransaction = probe]
        /\ transaction = NULL =>
             /\ ~r.obs.threw
             /\ r.transaction = probe
             /\ r.nextTransaction = nextTransaction
             /\ r.txn[probe].timer
             /\ r.ev[probe].request = 1
             /\ r.obs.lastWrite = obs.lastWrite

\* a third sendRequest was rejected and both slots are still occupied
C4_Witness ==
  /\ kind = "tunnel"
  /\ obs.thrown > 0
  /\ transaction \in T
  /\ nextTransaction \in T
  /\ transaction # nextTransaction

\* C5: on RTU and Tunnel the request written to the connection is that of
\* the transport's current transaction, and no other transaction is open
\* when it is written: the one before it was closed first
C5_OneRequestAtATime ==
  kind \in {"rtu", "tunnel"} =>
    /\ obs.lastWrite.tx # NULL =>
         /\ obs.lastWrite.current = obs.lastWrite.tx
         /\ obs.lastWrite.others = {}
    /\ obs.open \subseteq {transaction}

\* the request of the second transaction is written after the first one
\* completed
C5_Witness ==
  /\ kind = "tunnel"
  /\ obs.lastWrite.tx = 2
  /\ ev[1].complete = 1
  /\ ev[1].written > 0

\* the transactions and the txids of the frames delivered in this turn
DeliveredTx == [i \in 1 .. Len(obs.delivered) |-> obs.delivered[i].tx]
DeliveredIds == [i \in 1 .. Len(obs.delivered) |-> obs.delivered[i].id]

\* C6: on IP each complete inbound frame is delivered to the transaction
\* whose allocated txid, the one in its ADU, equals the frame's txid, and to
\* no other; deliveries follow the order of the frames and the completion
\* callbacks fire in that order
C6_IpCorrelation ==
  (kind = "ip" /\ obs.frames # << >>) =>
    /\ \A i \in 1 .. Len(obs.delivered) :
         Take(obs.delivered[i].adu, 2) = UInt16BE(obs.delivered[i].id)
    /\ IsSubseq(DeliveredIds, obs.frames)
    /\ IsSubseq(obs.fired, DeliveredTx)
    /\ \A i \in 1 .. Len(obs.failures) :
         obs.failures[i].tx \in Range(DeliveredTx)

\* the reply to the second transaction arrived before the reply to the
\* first, and the callbacks fired in that order
C6_Witness ==
  /\ kind = "ip"
  /\ obs.frames = << 2, 1 >>
  /\ obs.fired = << 2, 1 >>

\* the failure `complete` reported
OutcomeFailure(o) == IF o.err # "none" THEN o.err ELSE o.res

\* the transaction completed with a failure of the retriable kind
FailedRetriably(t) ==
  /\ ev[t].complete = 1
  /\ \/ Retriable(ev[t].outcome.err)
     \/ retryOnException /\ ev[t].outcome.res = "exception"

\* what C7 says of transaction t
RetryBudgetSpent(t) ==
  FailedRetriably(t) =>
    /\ ev[t].written = txn[t].maxRetries + 1
    /\ txn[t].retries = 0
    /\ t \in Range(obs.fired) =>
         \E i \in 1 .. Len(obs.failures) :
           obs.failures[i] = [tx |-> t, what |-> OutcomeFailure(ev[t].outcome)]

\* C7 as stated, for every transport: when every attempt failed in a
\* retriable way and the budget is n, the ADU was written exactly n+1 times
\* and the callback received the error of the last attempt
C7_AsStated == \A t \in T : RetryBudgetSpent(t)

\* C7, amended: the same on RTU and IP, where sendRequest writes the ADU
\* once per attempt
C7_RetryBudget == \A t \in T : kind \in {"rtu", "ip"} => RetryBudgetSpent(t)

\* a transaction with a budget of one retry failed twice
C7_Witness ==
  /\ kind = "rtu"
  /\ \E t \in T : /\ FailedRetriably(t)
                  /\ txn[t].maxRetries = 1
                  /\ ev[t].written = 2
                  /\ ev[t].outcome.err = "InvalidChecksum"

\* what C8 says of the transaction an exception response arrived for in
\* this turn; `counted` tells where the number of frames is claimed
ExceptionHandled(t, counted) ==
  IF txn[t].state = "completed"
    THEN /\ ev[t].outcome = [err |-> "none", res |-> "exception"]
         /\ retryOnException => txn[t].retries = 0
         /\ (~retryOnException /\ counted /\ txn[t].retries = txn[t].maxRetries)
              => ev[t].written = 1
    ELSE /\ retryOnException
         /\ Live(txn[t].state)
         /\ txn[t].retries < txn[t].maxRetries

\* C8 as stated, for every transport: with retryOnException false an
\* exception response is not retried, the transaction completes with
\* (null, ExceptionResponse) and, the exception being the answer to the
\* first attempt, exactly one request frame has been written; with
\* retryOnException true it is retried while budget remains.  The number
\* of frames is looked at only where the request was on the wire before
\* its answer came.
C8_AsStated ==
  \A i \in 1 .. Len(obs.failures) :
    obs.failures[i].what = "exception" =>
      ExceptionHandled(obs.failures[i].tx, ev[obs.failures[i].tx].written > 0)

\* C8, amended: the same, the number of frames claimed on RTU and IP only
C8_ExceptionRetry ==
  \A i \in 1 .. Len(obs.failures) :
    obs.failures[i].what = "exception" =>
      ExceptionHandled(obs.failures[i].tx, kind \in {"rtu", "ip"})

\* an exception response to a first attempt completed the transaction
C8_Witness ==
  /\ kind = "rtu"
  /\ ~retryOnException
  /\ \E t \in T : /\ obs.failures = << [tx |-> t, what |-> "exception"] >>
                  /\ txn[t].state = "completed"
                  /\ txn[t].maxRetries = 1
                  /\ ev[t].written = 1

\* the transport holds transaction t
Held(t) ==
  \/ transaction = t
  \/ nextTransaction = t
  \/ t \in Range(transactions)

\* C9: after cancel() the transaction's timer is cleared and the
\* transaction is in no transport slot, in no id map and not in the
\* master's queue
C9_CancelReleases ==
  \A t \in T :
    txn[t].state = "cancelled" =>
      /\ ~txn[t].timer
      /\ ~Held(t)
      /\ t \notin SeqToSet(requestQueue)

-----------------------------------------------------------------------------
(* The Tunnel transport's inbound dispatch. *)

\* the bytes of a buffer that precede its two CRC bytes, without the unit
PduOf(buf) == SubSeq(buf, 2, Len(buf) - 2)

\* the CRC a buffer carries in its last two bytes, low byte first
CrcOf(buf) == buf[Len(buf) - 1] + (256 * buf[Len(buf)])

\* a buffer that is long enough to be a frame and whose CRC matches
WellFramed(buf) ==
  /\ Len(buf) >= TUNNEL_MIN_FRAME_LENGTH
  /\ crc16(buf[1], PduOf(buf)) = CrcOf(buf)

\* a well-framed SLAVE_COMMAND addressed to our slave id
OurPoll(buf) ==
  /\ WellFramed(buf)
  /\ buf[1] = defaultSlaveId
  /\ buf[2] = SLAVE_COMMAND

\* the Tunnel's end-of-frame timer is pending: what is in the reader is the
\* frame handleFrameData is about to see
TunnelFrameDue == kind = "tunnel" /\ eofTimer

\* the state the expiry of the end-of-frame timer leads to
AfterTunnelEof == TunnelHandleFrameData(Turn(S))

\* C11: an inbound Tunnel frame with a valid CRC that is not a
\* SLAVE_COMMAND addressed to our slave id (another unit, or another
\* function code) leaves sequence, current and next unchanged and causes no
\* write to the connection; no transaction is touched
C11_ForeignFrameIgnored ==
  (TunnelFrameDue /\ WellFramed(reader) /\ ~OurPoll(reader)) =>
    /\ AfterTunnelEof.sequence = sequence
    /\ AfterTunnelEof.transaction = transaction
    /\ AfterTunnelEof.nextTransaction = nextTransaction
    /\ AfterTunnelEof.obs.lastWrite = noWrite
    /\ AfterTunnelEof.txn = txn
    /\ AfterTunnelEof.ev = ev

\* a well-framed frame was heard while a transaction was pending, and
\* nothing was written in answer
C11_Witness ==
  /\ kind = "tunnel"
  /\ obs.sniff = << "pdu" >>
  /\ obs.lastWrite = noWrite
  /\ transaction \in T
  /\ txn[transaction].timer

\* the poll the bus master sends to our slave id for sequence number seq,
\* with `payload` behind the sequence byte
PollFrame(seq, payload) ==
  rtuFrameBytes(defaultSlaveId, << SLAVE_COMMAND, seq >> \o payload)

\* a frame arrives whole in an idle reader and the end-of-frame timer fires
TunnelReceive(s, frame) ==
  TunnelHandleFrameData(Turn(TunnelOnData(Turn(s), frame)))

\* the reply that carries the request behind the sequence byte seq:
\* [slaveId][SLAVE_COMMAND][seq][target unit][request PDU][crc]
RequestReply(seq) ==
  rtuFrameBytes(defaultSlaveId,
                << SLAVE_COMMAND, seq, defaultUnit >>
                  \o ReadObjectRequest_toBuffer(objectId))

\* transaction t is the one submitted transaction of a Tunnel transport and
\* no reply has carried its request yet
AwaitsPoll(t) ==
  /\ kind = "tunnel"
  /\ ~destroyed
  /\ transaction = t
  /\ nextTransaction = NULL
  /\ requestQueue = << >>
  /\ txn[t].timer
  /\ txn[t].adu = << >>
  /\ reader = << >>

\* the exchange of C12 from the present state: an in-sequence poll without
\* payload, then the next in-sequence poll carrying the response
AfterEmptyPoll == TunnelReceive(S, PollFrame(sequence, << >>))
AfterResponsePoll ==
  TunnelReceive(AfterEmptyPoll,
                PollFrame(AfterEmptyPoll.sequence, << defaultUnit >> \o okPdu))

\* the transaction completed with the decoded response in state r
CompletedWithResponse(r, t) ==
  /\ r.txn[t].state = "completed"
  /\ r.ev[t].complete = 1
  /\ r.ev[t].outcome = [err |-> "none", res |-> "response"]

\* C12 as stated: with sequence s and one submitted transaction, the
\* in-sequence poll without payload is answered with
\* [slaveId][SLAVE_COMMAND][s][target unit][request PDU][crc], and when the
\* next in-sequence poll carries the response the transaction completes
\* with the decoded response and the sequence is s+1 (mod 256)
C12_AsStated ==
  \A t \in T :
    AwaitsPoll(t) =>
      /\ AfterEmptyPoll.obs.lastWrite.bytes = RequestReply(sequence)
      /\ CompletedWithResponse(AfterResponsePoll, t)
      /\ AfterResponsePoll.sequence = (sequence + 1) % 256

\* C12, amended: the sequence moves on before the reply is built, so the
\* reply to the poll for s carries s+1:
\* [slaveId][SLAVE_COMMAND][s+1][target unit][request PDU][crc]; the next
\* in-sequence poll, the one for s+1, carries the response, the transaction
\* completes with the decoded response, and the sequence is then s+2
\* (mod 256)
C12_Piggyback ==
  \A t \in T :
    AwaitsPoll(t) =>
      /\ AfterEmptyPoll.obs.lastWrite.tx = t
      /\ AfterEmptyPoll.obs.lastWrite.bytes = RequestReply((sequence + 1) % 256)
      /\ AfterEmptyPoll.sequence = (sequence + 1) % 256
      /\ AfterEmptyPoll.transaction = t
      /\ CompletedWithResponse(AfterResponsePoll, t)
      /\ AfterResponsePoll.sequence = (sequence + 2) % 256

\* the exchange took place from sequence 0: the request went out once,
\* behind sequence byte 1, and the poll for 1 brought the response
C12_Witness ==
  /\ kind = "tunnel"
  /\ sequence = 2
  /\ \E t \in T : /\ obs.fired = << t >>
                  /\ ev[t].written = 1
                  /\ ev[t].outcome.res = "response"
                  /\ txn[t].adu = RequestReply(1)

\* the minimal reply: [slaveId][SLAVE_COMMAND][seq][crc]
MinimalReply(seq) == rtuFrameBytes(defaultSlaveId, << SLAVE_COMMAND, seq >>)

\* the reader holds a SLAVE_COMMAND for us whose sequence byte is not the
\* transport's sequence, and the end-of-frame timer is about to fire
OutOfSequencePollDue ==
  /\ TunnelFrameDue
  /\ OurPoll(reader)
  /\ reader[3] # sequence

\* handleFrameData left sequence, current and next as they were
SlotsAndSequenceKept(r) ==
  /\ r.sequence = sequence
  /\ r.transaction = transaction
  /\ r.nextTransaction = nextTransaction

\* C13 as stated: a SLAVE_COMMAND for us whose sequence byte differs from
\* the transport's sequence is answered with the minimal reply
\* [slaveId][SLAVE_COMMAND][sequence][crc], whether or not a transaction is
\* pending, and leaves sequence, current and next unchanged
C13_AsStated ==
  OutOfSequencePollDue =>
    /\ AfterTunnelEof.obs.lastWrite.bytes = MinimalReply(sequence)
    /\ SlotsAndSequenceKept(AfterTunnelEof)

\* C13, amended: such a poll leaves sequence, current and next unchanged
\* and is answered with one write: the minimal reply when no transaction is
\* pending, and the pending transaction's request ADU,
\* [slaveId][SLAVE_COMMAND][seq][target unit][request PDU][crc], when one is
C13_OutOfSequenceReply ==
  OutOfSequencePollDue =>
    /\ SlotsAndSequenceKept(AfterTunnelEof)
    /\ AfterTunnelEof.obs.lastWrite.tx = transaction
    /\ transaction = NULL =>
         AfterTunnelEof.obs.lastWrite.bytes = MinimalReply(sequence)
    /\ transaction # NULL =>
         /\ AfterTunnelEof.obs.lastWrite.bytes = AfterTunnelEof.txn[transaction].adu
         /\ txn[transaction].adu # << >> =>
              AfterTunnelEof.obs.lastWrite.bytes = txn[transaction].adu
         /\ \E k \in 0 .. MaxPolls :
              AfterTunnelEof.obs.lastWrite.bytes = RequestReply(k)

\* a poll out of sequence was answered with the pending transaction's
\* request: the sequence is still 0, so no poll so far was in sequence
C13_Witness ==
  /\ kind = "tunnel"
  /\ sequence = 0
  /\ obs.sniff = << "pdu" >>
  /\ transaction \in T
  /\ obs.lastWrite.tx = transaction
  /\ obs.lastWrite.bytes = RequestReply(0)

\* the largest value of the one-byte sequence
SEQUENCE_MAX == 255

\* the reader holds a SLAVE_COMMAND for us that carries the transport's
\* sequence, and the end-of-frame timer is about to fire
InSequencePollDue ==
  /\ TunnelFrameDue
  /\ OurPoll(reader)
  /\ reader[3] = sequence

\* the poll in the reader closes the current transaction: one is pending
\* and the poll carries bytes behind [SLAVE_COMMAND][sequence]
PollCloses == transaction # NULL /\ Len(PduOf(reader)) > 2

\* the polls for the last two values of the sequence
lastPoll == PollFrame(SEQUENCE_MAX, << >>)
lastButOnePoll == PollFrame(SEQUENCE_MAX - 1, << >>)

\* the transport as it is, but with its sequence at q and the poll for q
\* in its reader
AtSequence(q, poll) ==
  [Turn(S) EXCEPT !.sequence = q, !.reader = poll, !.eofTimer = TRUE]

\* every in-sequence poll moves the sequence on by one, 255 wrapping to 0:
\* in the states the polls lead to, and, where the polls of the model end,
\* with the sequence as it is after 254 and after 255 polls
SequenceAdvances ==
  /\ InSequencePollDue => AfterTunnelEof.sequence = (sequence + 1) % 256
  /\ (kind = "tunnel" /\ ~destroyed /\ reader = << >> /\ sequence = MaxPolls) =>
       /\ TunnelHandleFrameData(AtSequence(SEQUENCE_MAX, lastPoll)).sequence
            = 0
       /\ TunnelHandleFrameData(
            AtSequence(SEQUENCE_MAX - 1, lastButOnePoll)).sequence
            = SEQUENCE_MAX

\* C14 as stated: on every in-sequence SLAVE_COMMAND addressed to our slave
\* id the sequence becomes (sequence + 1) mod 256 and the next queued
\* transaction, if any, becomes current
C14_AsStated ==
  /\ SequenceAdvances
  /\ (InSequencePollDue /\ nextTransaction # NULL) =>
       AfterTunnelEof.transaction = nextTransaction

\* C14, amended: on every in-sequence SLAVE_COMMAND addressed to our slave
\* id the sequence becomes (sequence + 1) mod 256; the next queued
\* transaction, if any, becomes current and is started when the poll closes
\* the current transaction, that is when a transaction is pending and the
\* poll carries bytes behind its sequence byte; a poll without payload
\* leaves current and next as they are
C14_SequenceAndPromotion ==
  /\ SequenceAdvances
  /\ InSequencePollDue =>
       LET r == AfterTunnelEof
       IN  /\ (PollCloses /\ nextTransaction # NULL) =>
                /\ r.transaction = nextTransaction
                /\ r.nextTransaction # nextTransaction
                /\ Live(txn[nextTransaction].state) =>
                     r.txn[nextTransaction].timer
           /\ ~PollCloses =>
                /\ r.transaction = transaction
                /\ r.nextTransaction = nextTransaction

\* a poll brought the response of the first transaction and the second,
\* which waited in the next slot, became current and was started
C14_Witness ==
  /\ kind = "tunnel"
  /\ maxConcurrentRequests = 2
  /\ sequence > 0
  /\ obs.sniff = << "pdu" >>
  /\ obs.fired = << 1 >>
  /\ transaction = 2
  /\ nextTransaction = NULL
  /\ txn[2].timer
  /\ ev[2].request > 0

\* the tag handleFrameData surfaces a buffer under; `mismatch` is the tag
\* of a buffer whose CRC does not match
SniffTag(buf, mismatch) ==
  IF Len(buf) < TUNNEL_MIN_FRAME_LENGTH THEN "incomplete"
  ELSE IF ~WellFramed(buf) THEN mismatch
  ELSE "pdu"

\* what C15 says of the expiry of the end-of-frame timer, the tag of a CRC
\* mismatch being `mismatch`: one sniff event with the buffer's tag, and a
\* buffer not tagged `pdu` changes nothing but the reader, which is emptied
SniffedOnce(mismatch) ==
  TunnelFrameDue =>
    LET r == AfterTunnelEof
        tag == SniffTag(reader, mismatch)
    IN  /\ r.obs.sniff = << tag >>
        /\ tag # "pdu" =>
             r = [Turn(S) EXCEPT !.reader = << >>, !.eofTimer = FALSE,
                                 !.obs.sniff = << tag >>]

\* C15 as stated: each end-of-frame expiry on the Tunnel transport emits
\* exactly one sniff event, tagged `incomplete` for a buffer under 4 bytes,
\* `bad-checksum` for a CRC mismatch and `pdu` for every well-framed frame,
\* ours or not; a buffer tagged `incomplete` or `bad-checksum` changes no
\* transport state other than emptying the reader
C15_AsStated == SniffedOnce("bad-checksum")

\* C15, amended: the same, the tag of a CRC mismatch being the string
\* `bad checksum`
C15_SniffOnce == SniffedOnce("bad checksum")

\* a frame with a wrong CRC was sniffed while a transaction was pending,
\* and the transaction is still pending
C15_Witness ==
  /\ kind = "tunnel"
  /\ obs.sniff = << "bad checksum" >>
  /\ reader = << >>
  /\ transaction \in T
  /\ txn[transaction].timer

-----------------------------------------------------------------------------
(* The IP transport's inbound side and its transaction ids. *)

\* the IP transport is between two frames
IpBetweenFrames ==
  /\ kind = "ip"
  /\ ~destroyed
  /\ reader = << >>
  /\ header = emptyHeader

\* txids that no in-flight transaction is mapped to: the ones used up and
\* the one to be allocated next
UnknownIds == (1 .. (nextTransactionId + 1)) \ DOMAIN transactions

\* C16: an inbound IP frame whose txid matches no in-flight transaction has
\* exactly its payload skipped: no transaction is notified and the id map
\* is unchanged (the transport is as it was before the frame), and a frame
\* that follows it in the same chunk is parsed and delivered to its own
\* transaction as if it had arrived alone
C16_UnknownTxidSkipped ==
  IpBetweenFrames =>
    \A u \in UnknownIds :
      \A f \in IpFrames(u) :
        /\ IpOnData(Turn(S), f) = Turn(S)
        /\ \A k \in DOMAIN transactions :
             IpOnData(Turn(S), f \o ipFrame(k, defaultUnit, okPdu))
               = IpOnData(Turn(S), ipFrame(k, defaultUnit, okPdu))

\* a chunk held a frame for a txid no longer in flight and then the reply
\* to an in-flight transaction: only the second was delivered, and its
\* transaction completed
C16_Witness ==
  /\ kind = "ip"
  /\ Len(obs.frames) = 2
  /\ obs.frames[1] # obs.frames[2]
  /\ Len(obs.delivered) = 1
  /\ obs.delivered[1].id = obs.frames[2]
  /\ obs.fired = << obs.delivered[1].tx >>
  /\ reader = << >>

\* frames for the in-flight txid id with the headers C17 speaks of: a
\* protocol id other than 0, a length field of 0, a unit other than the
\* transaction's
InvalidHeaderFrames(id) ==
  { [ipFrame(id, defaultUnit, okPdu) EXCEPT ![4] = 1],
    ipZeroLength(id),
    ipFrame(id, defaultUnit + 1, okPdu) }

\* C17: an inbound IP frame that matches an in-flight transaction and whose
\* header has protocolId != 0, or a length field of 0, or a unit different
\* from the transaction's unit, fails that transaction with
\* InvalidResponseData, with no other error kind, and is not decoded as a
\* response
C17_InvalidHeaderRejected ==
  IpBetweenFrames =>
    \A id \in DOMAIN transactions :
      \A f \in InvalidHeaderFrames(id) :
        Live(txn[transactions[id]].state) =>
          IpOnData(Turn(S), f).obs.failures
            = << [tx |-> transactions[id], what |-> "InvalidResponseData"] >>

RECURSIVE WrittenUpTo(_)
\* how many requests of the transactions 1 .. n have been written
WrittenUpTo(n) == IF n = 0 THEN 0 ELSE ev[n].written + WrittenUpTo(n - 1)

\* the id sendRequest allocates when the last id allocated was n
AllocatedAfter(n) ==
  IpGetNextTransactionId([S EXCEPT !.nextTransactionId = n]).nextTransactionId

\* C18: IP transaction ids are allocated by adding one to the id allocated
\* before: the k-th request written carries txid k (the first 1, the second
\* 2), the ids in flight are among those allocated, 0xFFFF is never
\* allocated and the id after 0xFFFE wraps around, to 0
C18_TxidAllocation ==
  kind = "ip" =>
    /\ nextTransactionId = WrittenUpTo(NumTx)
    /\ DOMAIN transactions \subseteq 1 .. nextTransactionId
    /\ \A id \in DOMAIN transactions :
         Take(txn[transactions[id]].adu, 2) = UInt16BE(id)
    /\ obs.lastWrite.tx # NULL =>
         Take(obs.lastWrite.bytes, 2) = UInt16BE(nextTransactionId)
    /\ AllocatedAfter(nextTransactionId) = nextTransactionId + 1
    /\ \A n \in {ID_WRAP - 3, ID_WRAP - 2} : AllocatedAfter(n) = n + 1
    /\ AllocatedAfter(ID_WRAP - 1) = 0
    /\ \A n \in {nextTransactionId, ID_WRAP - 2, ID_WRAP - 1} :
         AllocatedAfter(n) # ID_WRAP

\* two requests are in flight, the first under txid 1 and the second
\* under txid 2
C18_Witness ==
  /\ kind = "ip"
  /\ nextTransactionId = 2
  /\ transactions = (1 :> 1) @@ (2 :> 2)
  /\ Take(txn[1].adu, 2) = << 0, 1 >>
  /\ Take(txn[2].adu, 2) = << 0, 2 >>
  /\ obs.lastWrite.tx = 2

-----------------------------------------------------------------------------
(* The cached ADU. *)

\* the ADU of the model's requests on RTU, and on IP behind its txid
theRtuAdu == [r \in Requests |-> rtuFrameBytes(defaultUnit, RequestPdu(r))]
theIpAduTail ==
  Slice(ipFrame(0, defaultUnit, ReadObjectRequest_toBuffer(objectId)), 2)

\* C19: a transaction's ADU is built and set exactly once, on its first
\* transmission; every transmission writes the cached buffer, which on RTU
\* is the same bytes every time and on IP the same bytes but for bytes 0-1,
\* which carry the txid allocated for the transmission
C19_AduCachedOnce ==
  /\ \A t \in T :
       /\ ev[t].aduSet <= 1
       /\ (ev[t].aduSet = 1) = (ev[t].written > 0)
       /\ (ev[t].aduSet = 0) = (txn[t].adu = << >>)
       /\ (kind = "rtu" /\ ev[t].written > 0) => txn[t].adu = theRtuAdu[request]
       /\ (kind = "ip" /\ ev[t].written > 0) =>
            Slice(txn[t].adu, 2) = theIpAduTail
  /\ obs.lastWrite.tx # NULL =>
       /\ obs.lastWrite.bytes = txn[obs.lastWrite.tx].adu
       /\ kind = "ip" =>
            Take(obs.lastWrite.bytes, 2) = UInt16BE(nextTransactionId)

\* a retry on IP wrote the ADU that was set once, under the txid allocated
\* for the retry
C19_Witness ==
  /\ kind = "ip"
  /\ \E t \in T : /\ obs.lastWrite.tx = t
                  /\ ev[t].written = 2
                  /\ ev[t].aduSet = 1
                  /\ txn[t].retries < txn[t].maxRetries
                  /\ Take(obs.lastWrite.bytes, 2) # << 0, 1 >>

-----------------------------------------------------------------------------
(* The RTU transport's inbound side. *)

\* the RTU end-of-frame timer is pending while a transaction is in flight
RtuFrameDue ==
  /\ kind = "rtu"
  /\ eofTimer
  /\ transaction # NULL
  /\ Live(txn[transaction].state)

\* the received frame: the reader, with enableEcho the bytes left after
\* the echo of the request is discarded
ReceivedFrame ==
  IF enableEcho THEN Slice(reader, Len(txn[transaction].adu)) ELSE reader

\* C20: on RTU a received frame shorter than 5 bytes (with enableEcho: the
\* bytes left after the echo is discarded) has the in-flight transaction
\* notified with IncompleteResponseFrame and the buffer emptied, the
\* transport being idle when the transaction is notified
C20_ShortFrameIncomplete ==
  (RtuFrameDue /\ Len(ReceivedFrame) < MIN_FRAME_LENGTH) =>
    LET r == RtuHandleFrameData(Turn(S))
    IN  /\ r.obs.failures
             = << [tx |-> transaction, what |-> "IncompleteResponseFrame"] >>
        /\ r.reader = << >>
        /\ ~r.obs.uncaught

\* the frame to validate carries a CRC that is not the CRC of its bytes
WrongCrc(frame) == crc16(frame[1], PduOf(frame)) # CrcOf(frame)

\* the frame to validate comes from a unit other than the transaction's
WrongUnit(frame) == frame[1] # defaultUnit

\* the end-of-frame timer is pending on a received frame of at least 5
\* bytes
RtuFullFrameDue == RtuFrameDue /\ Len(ReceivedFrame) >= MIN_FRAME_LENGTH

\* the one failure the in-flight transaction is notified of in a turn
OnlyFailure(r, what) == r.obs.failures = << [tx |-> transaction, what |-> what] >>

\* C21: RTU validates a received frame of at least 5 bytes by CRC first and
\* unit second: a frame with a wrong CRC, its unit wrong or not, is
\* reported as InvalidChecksum, a frame with a correct CRC and a wrong unit
\* as InvalidResponseData, and in neither case does the transaction get a
\* response
C21_ValidationOrder ==
  RtuFullFrameDue =>
    LET r == RtuHandleFrameData(Turn(S))
        f == ReceivedFrame
    IN  /\ WrongCrc(f) => OnlyFailure(r, "InvalidChecksum")
        /\ (~WrongCrc(f) /\ WrongUnit(f)) => OnlyFailure(r, "InvalidResponseData")
        /\ (WrongCrc(f) \/ WrongUnit(f)) =>
             r.ev[transaction].outcome.res = "none"

\* a frame with both a wrong CRC and a wrong unit is due and is reported as
\* InvalidChecksum
C21_Witness ==
  /\ RtuFullFrameDue
  /\ WrongCrc(ReceivedFrame)
  /\ WrongUnit(ReceivedFrame)
  /\ OnlyFailure(RtuHandleFrameData(Turn(S)), "InvalidChecksum")

\* a frame with a correct CRC and a wrong unit is due and is reported as
\* InvalidResponseData
C21_WitnessUnit ==
  /\ RtuFullFrameDue
  /\ ~WrongCrc(ReceivedFrame)
  /\ WrongUnit(ReceivedFrame)
  /\ OnlyFailure(RtuHandleFrameData(Turn(S)), "InvalidResponseData")

-----------------------------------------------------------------------------
(* The echo of the request on RTU. *)

\* the ADU most recently written by the transport: the in-flight
\* transaction's
WrittenAdu == txn[transaction].adu

\* with enableEcho the end-of-frame timer is pending on a buffer that holds
\* more bytes than the in-flight transaction's ADU: the echo and something
\* behind it
EchoedFrameDue ==
  /\ RtuFrameDue
  /\ enableEcho
  /\ Len(reader) > Len(WrittenAdu)

\* what the transaction and its listeners see of a turn
Seen(r) == [txn |-> r.txn, ev |-> r.ev, failures |-> r.obs.failures,
            fired |-> r.obs.fired, uncaught |-> r.obs.uncaught,
            reader |-> r.reader, transaction |-> r.transaction]

\* the bytes behind the echo of the written ADU parsed as the frame
ParsedBehindEcho ==
  RtuShiftAndDeliver([Turn(S) EXCEPT !.eofTimer = FALSE], transaction,
                     Slice(reader, Len(WrittenAdu)))

\* C22: with enableEcho, on every attempt, the number of leading inbound
\* bytes discarded as echo equals the length of the ADU most recently
\* written, and only the bytes after them are parsed as the frame
C22_EchoDiscarded ==
  EchoedFrameDue =>
    /\ RtuEchoCount(S) = Len(WrittenAdu)
    /\ Seen(RtuHandleFrameData(Turn(S))) = Seen(ParsedBehindEcho)

\* the same on the first transmission of the first request only
C22_FirstAttempt ==
  (/\ EchoedFrameDue
   /\ \A t \in T : ev[t].written = IF t = transaction THEN 1 ELSE 0) =>
    /\ RtuEchoCount(S) = Len(WrittenAdu)
    /\ Seen(RtuHandleFrameData(Turn(S))) = Seen(ParsedBehindEcho)

\* the echo and the response are buffered on a first transmission and the
\* transaction completes with the response
C22_FirstAttemptWitness ==
  /\ EchoedFrameDue
  /\ \A t \in T : ev[t].written = IF t = transaction THEN 1 ELSE 0
  /\ RtuHandleFrameData(Turn(S)).ev[transaction].outcome.res = "response"

\* with enableEcho the end-of-frame timer is pending on a buffer that holds
\* fewer bytes than the in-flight transaction's ADU: less than its echo
ShortEchoDue ==
  /\ RtuFrameDue
  /\ enableEcho
  /\ Len(reader) < Len(WrittenAdu)

\* C23: with enableEcho, when the end-of-frame timer expires with fewer
\* buffered bytes than the expected echo, the whole buffer is discarded and
\* the in-flight transaction fails with the no-echo error, an
\* InvalidResponseData error
C23_NoEchoFails ==
  ShortEchoDue =>
    LET r == RtuHandleFrameData(Turn(S))
    IN  /\ r.reader = << >>
        /\ OnlyFailure(r, "InvalidResponseData")

-----------------------------------------------------------------------------
(* The codec's round trips. *)

\* a request was constructed from valid options, encoded and decoded again
RequestWentRound ==
  /\ call.op = "RequestRoundTrip"
  /\ ret.kind = "done"
  /\ ret.made.kind = "request"

\* C24: for every request type and every valid option set O,
\* fromBuffer(toBuffer(fromOptions(O))) has the same observable fields (id,
\* address, count/max, data bytes) as fromOptions(O)
C24_RequestRoundTrip == RequestWentRound => ret.back = ret.made

\* the same for every request type but CommandRequest, and for a
\* CommandRequest without data
C24_OtherTypes ==
  (RequestWentRound /\ (call.type = "CommandRequest" => call.options.data = << >>))
    => ret.back = ret.made

\* a WriteMemoryRequest with data went round and came back as it was made
C24_OtherTypesWitness ==
  /\ RequestWentRound
  /\ call.type = "WriteMemoryRequest"
  /\ Len(ret.made.values) = MaxData
  /\ ret.back = ret.made

\* a well-formed response PDU was decoded and the response encoded again
ResponseWentRound ==
  /\ call.op = "ResponseRoundTrip"
  /\ ret.kind = "done"

\* C25: for every response type, toBuffer(fromBuffer(p)) = p for every
\* well-formed response PDU p laid out as in the function code catalog, in
\* particular ReportSlaveId, ReadDiagnostics and ReadFifo8
C25_ResponseRoundTrip == ResponseWentRound => ret.bytes = call.buffer

\* the same for the response types other than ReportSlaveId and
\* ReadDiagnostics
C25_OtherTypes ==
  (/\ ResponseWentRound
   /\ call.type \notin {"ReportSlaveIdResponse", "ReadDiagnosticsResponse"})
    => ret.bytes = call.buffer

\* a ReadFifo8 response with status and data went round unchanged
C25_OtherTypesWitness ==
  /\ ResponseWentRound
  /\ call.type = "ReadFifo8Response"
  /\ call.buffer[2] = 3
  /\ call.buffer[3] = MaxData
  /\ ret.bytes = call.buffer

\* a ReportSlaveId response comes back without its byte count
C25_SlaveIdCountDropped ==
  (ResponseWentRound /\ call.type = "ReportSlaveIdResponse") =>
    ret.bytes = << call.buffer[1] >> \o Slice(call.buffer, 2)

\* a ReadDiagnostics response comes back with its data zeroed
C25_DiagnosticsDataZeroed ==
  (ResponseWentRound /\ call.type = "ReadDiagnosticsResponse") =>
    ret.bytes = Take(call.buffer, 3) \o << 0, 0 >>

-----------------------------------------------------------------------------
(* createResponse, the CRC and the decoders' checks. *)

\* createResponse was called on a response buffer and has returned
ResponseCreated ==
  /\ call.op = "CreateResponse"
  /\ ret.kind = "done"

\* the first byte of the buffer is greater than 0x80
HighBit(buffer) == Len(buffer) > 0 /\ buffer[1] > 128

\* C26: createResponse returns an ExceptionResponse decoded from the buffer
\* exactly when the buffer's first byte is greater than 0x80 and otherwise
\* what the paired response type's fromBuffer gives; a first byte of 0x80
\* or below is never turned into an ExceptionResponse
C26_ExceptionOrResponse ==
  ResponseCreated =>
    /\ HighBit(call.buffer) =>
         ret.value = ExceptionResponse_fromBuffer(call.buffer)
    /\ ~HighBit(call.buffer) =>
         /\ ret.value = ResponseType_fromBuffer(call.buffer)
         /\ ret.value.kind # "exception"
    /\ ret.value.kind = "exception" => HighBit(call.buffer)

\* a buffer whose first byte is 0x80 went to the paired response type, which
\* rejected its function code
C26_Witness ==
  /\ ResponseCreated
  /\ Len(call.buffer) > 1
  /\ call.buffer[1] = 128
  /\ ret.value.kind = "throw"
  /\ ret.value.error = "InvalidFunctionCode"

\* a buffer whose first byte is 0x81 was decoded as an ExceptionResponse
C26_WitnessException ==
  /\ ResponseCreated
  /\ HighBit(call.buffer)
  /\ call.buffer[1] = 129
  /\ ret.value.kind = "exception"


\* crc16(unit, pdu) and frame(unit, pdu) were computed for unit 0x01 and the
\* single PDU byte 0x11
ReferenceVectorDone ==
  /\ call.op = "Crc16"
  /\ call.buffer = << 1, 17 >>
  /\ ret.kind = "done"

\* C27, as stated: the CRC-16 of unit 0x01 followed by the PDU byte 0x11 is
\* 0xD080, on the wire 80 D0
C27_AsStated ==
  ReferenceVectorDone =>
    /\ ret.crc = 53376
    /\ ret.frame = << 1, 17, 128, 208 >>

\* C27, amended: the CRC-16 (seed 0xFFFF) of unit 0x01 followed by the PDU
\* byte 0x11 is 0x2CC0, written on the wire low byte first as C0 2C
C27_ReferenceVector ==
  ReferenceVectorDone =>
    /\ ret.crc = 11456
    /\ ret.frame = << 1, 17, 192, 44 >>

\* the CRC of 01 11 was computed and is not the stated 0xD080
C27_Witness ==
  /\ ReferenceVectorDone
  /\ ret.crc # 53376
  /\ Len(ret.frame) = 4


\* fromBuffer of a counted type was called on a PDU and has returned
CountedDecoded ==
  /\ call.op = "FromBuffer"
  /\ call.type \in DOMAIN Counted
  /\ ret.kind = "done"

\* the PDU holds its count byte, which announces more data bytes than follow
Truncated(type, buffer) ==
  /\ Len(buffer) >= Counted[type]
  /\ buffer[Counted[type]] > Len(buffer) - Counted[type]

\* the least length util.assertBufferLength asks of a counted type's PDU
MinLengthOf(type) ==
  IF type \in {"WriteFifo8Request", "WriteObjectRequest"} THEN 4
  ELSE Counted[type]

\* C28: fromBuffer of a PDU that holds fewer data bytes than its byte-count
\* field announces fails with IncompletePdu instead of returning a value,
\* whatever the function code (the length check comes first)
C28_TruncatedFails ==
  (CountedDecoded /\ Truncated(call.type, call.buffer)) =>
    ret.value = Throws("IncompletePdu")

\* what the decoders do: only the fixed part's length is checked, before the
\* function code; a truncated PDU with the right code and the fixed part
\* gives a value whose missing bytes were never written
C28_OnlyFixedPartChecked ==
  CountedDecoded =>
    /\ Len(call.buffer) < MinLengthOf(call.type) =>
         ret.value = Throws("IncompletePdu")
    /\ (/\ Len(call.buffer) >= MinLengthOf(call.type)
        /\ call.buffer[1] # CodeOf(call.type)) =>
         ret.value = Throws("InvalidFunctionCode")
    /\ (/\ Len(call.buffer) >= MinLengthOf(call.type)
        /\ call.buffer[1] = CodeOf(call.type)
        /\ Truncated(call.type, call.buffer)) =>
         /\ ret.value.kind # "throw"
         /\ Len(ret.value.values) = call.buffer[Counted[call.type]]
         /\ \E i \in 1 .. Len(ret.value.values) :
              ret.value.values[i] = uninitialised

\* a truncated ReadObjectResponse was decoded to a value
C28_TruncatedReturned ==
  /\ CountedDecoded
  /\ call.type = "ReadObjectResponse"
  /\ Truncated(call.type, call.buffer)
  /\ ret.value.kind = "response"


\* Request.fromOptions was called with a function code and has returned
FromOptionsDone ==
  /\ call.op = "FromOptions"
  /\ ret.kind = "done"

\* the function codes of the catalog: 0x01-0x06, 0x08, 0x0F-0x11, 0x14,
\* 0x15, 0x41-0x47
CatalogCodes == (1 .. 6) \cup {8} \cup (15 .. 17) \cup {20, 21} \cup (65 .. 71)

\* the request was built by the type whose PDUs carry the function code
BuiltFor(code, value) ==
  /\ value.kind = "request"
  /\ value.type \in RequestTypes => ToBuffer(value)[1] = code
  /\ value.type \notin RequestTypes => value.type = registry[code]

\* C30: for every function code of the catalog Request.fromOptions({code})
\* builds a request of the type with that function code, and an unknown code
\* fails with an 'Unknown request' error
C30_RegistryCatalog ==
  FromOptionsDone =>
    IF call.options.code \in CatalogCodes
      THEN BuiltFor(call.options.code, ret.value)
      ELSE ret.value = Throws("Unknown request")

\* what the registry does: every code of the catalog but 0x42 builds its
\* request, 0x42 is bound to a name that is not exported and fails with a
\* TypeError, an unknown code fails with 'Unknown request'
C30_AllButWriteFifo8 ==
  FromOptionsDone =>
    IF call.options.code = 66
      THEN ret.value = Throws("TypeError")
    ELSE IF call.options.code \in CatalogCodes
      THEN BuiltFor(call.options.code, ret.value)
      ELSE ret.value = Throws("Unknown request")

\* fromOptions was called with code 0x42 and did not build a request
C30_WriteFifo8Unbuilt ==
  /\ FromOptionsDone
  /\ call.options.code = 66
  /\ ret.value.kind = "throw"

-----------------------------------------------------------------------------
(* The IP transport's inbound stream and its split into data events. *)

\* txids a stream of C29 is made for: the ones in flight and the one to be
\* allocated next
StreamIds == DOMAIN transactions \cup {nextTransactionId + 1}

\* the inbound streams: one frame a TCP peer sends, or two of them for two
\* txids, the second one a response or an exception
WellFormedStreams ==
  { f : f \in UNION { IpFrames(i) : i \in StreamIds } }
    \cup { f \o g :
             f \in UNION { IpFrames(i) : i \in StreamIds },
             g \in { ipFrame(j, defaultUnit, p) :
                       j \in DOMAIN transactions, p \in {okPdu, exceptionPdu} } }

\* the same behind a header whose length field is 0, for an in-flight txid
ZeroLengthStreams ==
  UNION { { ipZeroLength(i) \o ipFrame(j, defaultUnit, okPdu) :
              j \in DOMAIN transactions \ {i} } :
            i \in DOMAIN transactions }

\* the stream arrives in one data event, or in two, split after k bytes
InOneChunk(stream) == IpOnData(Turn(S), stream)
InTwoChunks(stream, k) ==
  IpOnData(IpOnData(Turn(S), Take(stream, k)), Slice(stream, k))

\* C29: the IP transport's deliveries depend only on the concatenated
\* inbound byte stream, not on how it is split into data events: whatever
\* the split, the same transactions are delivered the same frames and the
\* transport ends in the same state
C29_ChunkingIrrelevant ==
  IpBetweenFrames =>
    \A stream \in WellFormedStreams \cup ZeroLengthStreams :
      \A k \in 1 .. Len(stream) - 1 :
        InTwoChunks(stream, k) = InOneChunk(stream)

\* the same for streams whose headers have a length field of 1 or more
C29_WellFormedStreams ==
  IpBetweenFrames =>
    \A stream \in WellFormedStreams :
      \A k \in 1 .. Len(stream) - 1 :
        InTwoChunks(stream, k) = InOneChunk(stream)

\* two frames for two in-flight transactions can arrive in one chunk
C29_TwoInFlight ==
  /\ IpBetweenFrames
  /\ Cardinality(DOMAIN transactions) >= 2


\* what a header with a length field of 0 does to the frame behind it: in
\* one chunk the handler raises at the header, its transaction taken off the
\* id map, and the frame stays in the reader, undelivered; split at or behind
\* the header's end, the second data event skips the header and delivers the
\* frame
C29_ZeroLengthSplit ==
  IpBetweenFrames =>
    \A stream \in ZeroLengthStreams :
      /\ InOneChunk(stream).obs.uncaught
      /\ Len(InOneChunk(stream).obs.delivered) = 1
      /\ InOneChunk(stream).reader = Slice(stream, 7)
      /\ \A k \in 1 .. 6 : InTwoChunks(stream, k) = InOneChunk(stream)
      /\ \A k \in 7 .. Len(stream) - 1 :
           /\ Len(InTwoChunks(stream, k).obs.delivered) = 2
           /\ InTwoChunks(stream, k).reader = << >>

-----------------------------------------------------------------------------
(* The RTU transport at the moment of a notification, and while idle. *)

\* in this turn an RTU transaction was notified of a response, of an error or
\* of its timeout
RtuNotified ==
  /\ kind = "rtu"
  /\ obs.failures # << >> \/ obs.fired # << >>

\* C31: on RTU, when a transaction is notified of a response, a framing or
\* validation error or a timeout, the transport has already cleared its
\* current transaction and emptied its reader: the retry or the next queued
\* request sent from inside the notification is accepted (it is written and
\* is the transport's current transaction, its timeout armed), and when
\* nothing was sent the transport is free
C31_ClearedWhenNotified ==
  RtuNotified =>
    /\ reader = << >>
    /\ ~eofTimer
    /\ obs.fired = << >> =>
         /\ transaction = obs.failures[1].tx
         /\ obs.lastWrite.tx = transaction
         /\ txn[transaction].timer
    /\ (obs.fired # << >> /\ requestQueue # << >>) =>
         /\ transaction = obs.lastWrite.tx
         /\ transaction \in T
    /\ transaction # NULL =>
         /\ obs.lastWrite.tx = transaction
         /\ transaction \notin SeqToSet(obs.fired)

\* a response with a bad CRC was notified and the retry sent from the
\* notification was accepted
C31_Witness ==
  /\ RtuNotified
  /\ obs.failures = << [tx |-> transaction, what |-> "InvalidChecksum"] >>
  /\ obs.fired = << >>
  /\ obs.lastWrite.tx = transaction

\* a timeout was notified and the retry was accepted
C31_WitnessTimeout ==
  /\ RtuNotified
  /\ obs.failures = << [tx |-> transaction, what |-> "Timeout"] >>
  /\ obs.fired = << >>
  /\ obs.lastWrite.tx = transaction

\* a transaction completed and the next queued request was sent from its
\* completion
C31_WitnessQueued ==
  /\ RtuNotified
  /\ obs.fired # << >>
  /\ transaction \in T
  /\ obs.lastWrite.tx = transaction


\* the RTU transport holds no transaction
RtuIdle ==
  /\ kind = "rtu"
  /\ transaction = NULL

-----------------------------------------------------------------------------
(* The Tunnel transport's two slots, its sequence byte and its replies. *)

\* C33: in every reachable state of the Tunnel transport the next slot is
\* occupied only if the current slot is occupied
C33_NextOnlyBehindCurrent ==
  kind = "tunnel" => (nextTransaction # NULL => transaction # NULL)

\* the next slot's transaction has moved into the current slot when the
\* current one timed out, and a third one has taken the next slot
C33_Witness ==
  /\ kind = "tunnel"
  /\ obs.failures # << >>
  /\ obs.failures[1].what = "Timeout"
  /\ transaction \in T
  /\ nextTransaction \in T
  /\ transaction # obs.failures[1].tx


\* in this turn the Tunnel transport wrote a reply to the connection
TunnelWrote ==
  /\ kind = "tunnel"
  /\ obs.lastWrite # noWrite

\* C34: every frame the Tunnel transport writes carries, in its sequence
\* byte, the transport's sequence value at the time of the write, a resent
\* cached ADU included
C34_SequenceByteCurrent ==
  TunnelWrote => obs.lastWrite.bytes[3] = sequence

\* what the replies carry: the minimal reply and the first reply that
\* carries a transaction's request are built with the sequence of the time
\* of the write; every later reply for the transaction resends the ADU that
\* was cached then, sequence byte and all
C34_CachedSequence ==
  TunnelWrote =>
    /\ obs.lastWrite.tx = NULL =>
         obs.lastWrite.bytes = MinimalReply(sequence)
    /\ obs.lastWrite.tx # NULL =>
         /\ obs.lastWrite.bytes = txn[obs.lastWrite.tx].adu
         /\ ev[obs.lastWrite.tx].written = 1 =>
              obs.lastWrite.bytes = RequestReply(sequence)

\* a cached ADU was resent with the sequence byte of an earlier poll
C34_StaleSequence ==
  /\ TunnelWrote
  /\ obs.lastWrite.tx \in T
  /\ ev[obs.lastWrite.tx].written = 2
  /\ obs.lastWrite.bytes[3] # sequence


\* transaction u is the Tunnel transport's current one after this step and
\* became it in this step: it was not current before, or it was closed by
\* the step and sent again from its notification
BecomesCurrent(u) ==
  /\ kind = "tunnel"
  /\ transaction' = u
  /\ \/ transaction # u
     \/ \E i \in DOMAIN obs'.failures : obs'.failures[i].tx = u

\* C35: a Tunnel transaction is started (`request` emitted, timeout armed)
\* exactly once each time it becomes current, also when sendRequest is
\* called from inside the completion notification of the transaction a poll
\* has just closed
C35_StartedOnce ==
  [][\A u \in T :
       BecomesCurrent(u) =>
         /\ ev'[u].request = Inc(ev[u].request)
         /\ txn'[u].timer]_vars

\* a poll closed the current transaction, the next request was sent from its
\* completion and was started twice, no retry of it spent, before the reply
\* to the poll carried it
C35_StartedTwice ==
  /\ kind = "tunnel"
  /\ Len(obs.fired) = 1
  /\ transaction \in T
  /\ transaction # obs.fired[1]
  /\ obs.sniff = << "pdu" >>
  /\ ev[transaction].request = 2
  /\ ev[transaction].written = 1
  /\ obs.lastWrite.tx = transaction
  /\ txn[transaction].retries = txn[transaction].maxRetries

-----------------------------------------------------------------------------
(* One notification for each matched frame. *)

\* the present state at the start of a turn in which the listeners of the
\* transactions' events raise (b) or do not
TurnWith(b) == [Turn(S) EXCEPT !.obs.listenerRaises = b]

\* how often transaction t failed and how often it completed in the turn
\* that led to r
FailuresOf(r, t) ==
  Cardinality({i \in DOMAIN r.obs.failures : r.obs.failures[i].tx = t})
CompletionsOf(r, t) ==
  Cardinality({i \in DOMAIN r.obs.fired : r.obs.fired[i] = t})

\* the turn that led to r notified t once: of a response or of an error, not
\* of both, and of nothing after its completion
NotifiedOnce(r, t) ==
  /\ FailuresOf(r, t) <= 1
  /\ CompletionsOf(r, t) <= 1
  /\ FailuresOf(r, t) + CompletionsOf(r, t) >= 1
  /\ r.ev[t].late = ev[t].late

\* the frames matched to a transaction: on RTU the frame in the reader at the
\* expiry of the end-of-frame timer, on Tunnel the in-sequence poll with a
\* payload in the reader, on IP a frame with the txid of a transaction in
\* flight; each with the state its handling leads to
MatchedRtu(b) ==
  IF RtuFullFrameDue /\ ~enableEcho
    THEN {[tx |-> transaction, after |-> RtuHandleFrameData(TurnWith(b))]}
    ELSE {}
MatchedTunnel(b) ==
  IF InSequencePollDue /\ PollCloses /\ Live(txn[transaction].state)
    THEN {[tx |-> transaction, after |-> TunnelHandleFrameData(TurnWith(b))]}
    ELSE {}
MatchedIp(b) ==
  IF IpBetweenFrames
    THEN UNION { { [tx |-> transactions[id],
                    after |-> IpOnData(TurnWith(b), ipFrame(id, unit, pdu))] :
                     unit \in {defaultUnit, defaultUnit + 1},
                     pdu \in {okPdu, exceptionPdu} } :
                   id \in {i \in DOMAIN transactions :
                             Live(txn[transactions[i]].state)} }
    ELSE {}
Matched(b) == MatchedRtu(b) \cup MatchedTunnel(b) \cup MatchedIp(b)

\* C36: for each inbound frame matched to a transaction, the RTU, IP and
\* Tunnel transports notify that transaction exactly once, with
\* handleResponse or with handleError and never with both, whether
\* handleResponse raises an exception or not
C36_NotifiedOnce ==
  \A b \in BOOLEAN : \A m \in Matched(b) : NotifiedOnce(m.after, m.tx)

\* the same while no listener raises: one notification for each matched
\* frame
C36_OnceUnlessRaised ==
  \A m \in Matched(FALSE) : NotifiedOnce(m.after, m.tx)

\* a frame is matched to a transaction in flight, on each transport
C36_MatchedRtu == MatchedRtu(TRUE) # {}
C36_MatchedTunnel == MatchedTunnel(TRUE) # {}
C36_MatchedIp == MatchedIp(TRUE) # {}

-----------------------------------------------------------------------------
(* The Tunnel transport's answers to the polls. *)

\* a SLAVE_COMMAND addressed to our slave id has arrived completely and with
\* a valid CRC, and the end-of-frame timer runs on it
PollArrived ==
  /\ TunnelFrameDue
  /\ OurPoll(reader)

\* the step wrote to the connection once
WroteOnce ==
  /\ obs'.lastWrite # noWrite
  /\ obs'.lastWrite.tx # NULL =>
       ev'[obs'.lastWrite.tx].written = Inc(ev[obs'.lastWrite.tx].written)

\* C37: every SLAVE_COMMAND frame addressed to our slave id that arrives
\* completely and with a valid CRC is answered with exactly one write to the
\* connection: the step that takes the frame out of the reader of a
\* transport that is not being destroyed writes once, also when it is the
\* current transaction's timeout
C37_EveryPollAnswered ==
  [][(PollArrived /\ reader' = << >> /\ ~destroyed') => WroteOnce]_vars

\* the expiry of the end-of-frame timer answers the poll with one write
C37_AnsweredAtExpiry ==
  PollArrived =>
    /\ AfterTunnelEof.obs.lastWrite # noWrite
    /\ AfterTunnelEof.reader = << >>
    /\ AfterTunnelEof.obs.lastWrite.tx # NULL =>
         AfterTunnelEof.ev[AfterTunnelEof.obs.lastWrite.tx].written
           = Inc(ev[AfterTunnelEof.obs.lastWrite.tx].written)

\* the current transaction's timeout, firing before the expiry of the
\* end-of-frame timer, stops that timer and flushes the poll with the
\* reader: nothing is written and nothing is left to answer
C37_TimeoutLosesPoll ==
  PollArrived =>
    \A t \in T :
      txn[t].timer =>
        /\ TxHandleTimeout(Turn(S), t).obs.lastWrite = noWrite
        /\ TxHandleTimeout(Turn(S), t).reader = << >>
        /\ ~TxHandleTimeout(Turn(S), t).eofTimer

\* a whole poll is in the reader while the current transaction's timeout
\* is armed
C37_PollAndTimeoutPending ==
  /\ PollArrived
  /\ transaction \in T
  /\ txn[transaction].timer

-----------------------------------------------------------------------------
(* The IP transport's txids and the transactions in flight. *)

\* an IP transport with transactions in flight
IpInFlight ==
  /\ kind = "ip"
  /\ ~destroyed
  /\ DOMAIN transactions # {}

\* the values the txid counter has had, and has again each time 0xFFFF
\* allocations have been made since: among them the one below the txid of a
\* transaction that is still in flight
CountersBelowInFlight == {id - 1 : id \in DOMAIN transactions}

\* sendRequest of another transaction with the counter at c
SentAt(c) == IpSendRequest([Turn(S) EXCEPT !.nextTransactionId = c], probe)

\* C38: on IP, sendRequest never allocates a txid that is still mapped to an
\* in-flight transaction, whatever the counter has come to: no entry of the
\* id map is overwritten by another transaction
C38_NoTxidReuse ==
  IpInFlight =>
    \A c \in {nextTransactionId} \cup CountersBelowInFlight :
      /\ SentAt(c).nextTransactionId \notin DOMAIN transactions
      /\ \A id \in DOMAIN transactions :
           SentAt(c).transactions[id] = transactions[id]

\* before the counter has wrapped: the txid allocated next is above every
\* txid in flight and no entry of the id map is overwritten
C38_FreshBeforeWrap ==
  IpInFlight =>
    /\ \A id \in DOMAIN transactions : id <= nextTransactionId
    /\ SentAt(nextTransactionId).nextTransactionId \notin DOMAIN transactions
    /\ \A id \in DOMAIN transactions :
         SentAt(nextTransactionId).transactions[id] = transactions[id]

\* once the counter has come round to the txid of a transaction in flight:
\* the entry is overwritten, and the timeout handler of the transaction that
\* held it removes the entry of the other transaction
C38_OverwrittenAfterWrap ==
  IpInFlight =>
    \A id \in DOMAIN transactions :
      /\ SentAt(id - 1).transactions[id] = probe
      /\ id \notin DOMAIN IpTimeoutHandler(SentAt(id - 1), id).transactions

\* two transactions are in flight on IP
C38_TwoInFlight ==
  /\ IpInFlight
  /\ Cardinality(DOMAIN transactions) = 2


\* the step is the expiry of the end-of-frame timer on a poll addressed to us
PollHandled ==
  /\ PollArrived
  /\ reader' = << >>
  /\ obs'.sniff = << "pdu" >>

\* C39 as stated: within one attempt the transaction's request ADU is
\* written to the connection at most once, however many polls arrive: a
\* transaction none of whose retries is spent, which is in its first
\* attempt, has been written at most once
C39_AsStated ==
  kind = "tunnel" =>
    \A t \in T : txn[t].retries = txn[t].maxRetries => ev[t].written <= 1

\* C39, amended: the request ADU of the current transaction is written once
\* for every poll addressed to our slave id that is handled while the
\* transaction is current and does not close it, in sequence or not, and at
\* no other time: as many times within an attempt as such polls arrive
C39_OncePerPoll ==
  [][kind = "tunnel" =>
       \A t \in T :
         /\ ev'[t].written # ev[t].written =>
              /\ PollHandled
              /\ transaction' = t
              /\ obs'.lastWrite.tx = t
              /\ ev'[t].written = Inc(ev[t].written)
         /\ (PollHandled /\ transaction' = t) =>
              /\ obs'.lastWrite.tx = t
              /\ obs'.lastWrite.bytes = txn'[t].adu]_vars

\* a transaction in its first attempt was written a second time, in answer
\* to a second poll
C39_Witness ==
  /\ kind = "tunnel"
  /\ transaction \in T
  /\ txn[transaction].retries = txn[transaction].maxRetries
  /\ ev[transaction].written = 2
  /\ ev[transaction].request = 1
  /\ obs.lastWrite.tx = transaction
  /\ obs.sniff = << "pdu" >>


\* C40: a Tunnel transaction is completed with a response only by a poll
\* that arrives after a reply in which that transaction's own request was
\* written: a transaction that has completed with a response or an exception
\* response has had its request written
C40_AnsweredAfterSent ==
  kind = "tunnel" =>
    \A t \in T : ev[t].outcome.res # "none" => ev[t].written >= 1

\* what closes a transaction: the in-sequence poll with bytes behind
\* [SLAVE_COMMAND][sequence] hands them to the current transaction, its
\* request written or not
C40_AnyPayloadCloses ==
  (/\ InSequencePollDue
   /\ PollCloses
   /\ Live(txn[transaction].state)
   /\ ev[transaction].written = 0) =>
    /\ FailuresOf(AfterTunnelEof, transaction)
         + CompletionsOf(AfterTunnelEof, transaction) >= 1
    /\ Slice(PduOf(reader), 3) = okPdu =>
         AfterTunnelEof.ev[transaction].outcome
           = [err |-> "none", res |-> "response"]

\* a transaction whose request was never written completed with the
\* payload of a poll
C40_AnsweredUnsent ==
  /\ kind = "tunnel"
  /\ Len(obs.fired) = 1
  /\ ev[obs.fired[1]].written = 0
  /\ ev[obs.fired[1]].outcome = [err |-> "none", res |-> "response"]
  /\ obs.lastWrite.tx = NULL

=============================================================================
